---- MODULE Spec2Model ----
(***************************************************************************)
(* Model of the statement-ingestion pipeline of the finance dashboard:     *)
(* the CSV and statement-text ingestors (src/lib/file-parsers.ts,          *)
(* src/app/api/parse-pdf/route.ts), the categorization engine              *)
(* (src/lib/transaction-categorizer.ts) and the upload handler of the      *)
(* finance page (src/app/finance/page.tsx).                                *)
(*                                                                         *)
(* Text is a sequence of one-character strings, so that substring tests,   *)
(* trimming, case folding and number parsing are computed as the code      *)
(* computes them.  Amounts are integers counting thousandths, confidences  *)
(* integers counting tenths.                                               *)
(***************************************************************************)
EXTENDS Integers, Sequences, FiniteSets, TLC

VARIABLES
  page,  \* the state of FinancePage: isProcessing, isLoading, error, uploadStats
  db,    \* the rows of the transactions table
  fn,    \* the function or handler that is running ("none" before the call)
  arg,   \* its argument
  env,   \* what the remote collaborator answered to it ("none" when not asked)
  ret,   \* what it returned (or threw)
  loc,   \* the local variables of a function that is stepped through its loop
  pc     \* position of the running function or handler

vars == <<page, db, fn, arg, env, ret, loc, pc>>

-----------------------------------------------------------------------------
(* JavaScript values shared by all components *)

\* the value `undefined` of an absent optional field
Undefined == "undefined"

\* outcome of a call: a returned value or a thrown error
Return(v) == [threw |-> FALSE, value |-> v]
Throw(e) == [threw |-> TRUE, value |-> e]

-----------------------------------------------------------------------------
(* Text *)

UpperLetters ==
  <<"A","B","C","D","E","F","G","H","I","J","K","L","M",
    "N","O","P","Q","R","S","T","U","V","W","X","Y","Z">>
LowerLetters ==
  <<"a","b","c","d","e","f","g","h","i","j","k","l","m",
    "n","o","p","q","r","s","t","u","v","w","x","y","z">>
Digits == <<"0","1","2","3","4","5","6","7","8","9">>

UpperSet == {UpperLetters[i] : i \in DOMAIN UpperLetters}
LowerSet == {LowerLetters[i] : i \in DOMAIN LowerLetters}
DigitSet == {Digits[i] : i \in DOMAIN Digits}

IsUpper(c) == c \in UpperSet
IsLower(c) == c \in LowerSet
IsDigit(c) == c \in DigitSet
\* \s of the regular expressions, as far as the modelled texts use it
IsSpace(c) == c \in {" ", "\t"}

\* the lower-case letter of each upper-case letter
LowerOf ==
  [c \in UpperSet |-> LowerLetters[CHOOSE i \in DOMAIN UpperLetters : UpperLetters[i] = c]]

LowerChar(c) == IF IsUpper(c) THEN LowerOf[c] ELSE c

\* String.prototype.toLowerCase
ToLowerCase(s) == [i \in 1..Len(s) |-> LowerChar(s[i])]

\* k occurs in s at position i
OccursAt(s, k, i) ==
  /\ i + Len(k) - 1 <= Len(s)
  /\ \A j \in 1..Len(k) : s[i + j - 1] = k[j]

\* String.prototype.includes
Includes(s, k) == \E i \in 1..(Len(s) - Len(k) + 1) : OccursAt(s, k, i)

NonSpaces(s) == {p \in DOMAIN s : ~IsSpace(s[p])}

TrimStart(s) ==
  IF NonSpaces(s) = {} THEN <<>>
  ELSE SubSeq(s, CHOOSE p \in NonSpaces(s) : \A q \in NonSpaces(s) : p <= q, Len(s))

TrimEnd(s) ==
  IF NonSpaces(s) = {} THEN <<>>
  ELSE SubSeq(s, 1, CHOOSE p \in NonSpaces(s) : \A q \in NonSpaces(s) : q <= p)

\* String.prototype.trim
Trim(s) == TrimEnd(TrimStart(s))

-----------------------------------------------------------------------------
(* Categorization engine: src/lib/transaction-categorizer.ts *)

CATEGORIZATION_RULES ==
  <<
    [key |-> "food_dining", category |-> "Food & Dining", subcategory |-> "Restaurants",
     keywords |-> << <<"r","e","s","t","a","u","r","a","n","t">>, <<"m","c","d","o","n","a","l","d">>, <<"b","u","r","g","e","r">>, <<"p","i","z","z","a">>, <<"s","t","a","r","b","u","c","k","s">>, <<"c","o","f","f","e","e">>, <<"c","a","f","e">>, <<"d","i","n","e","r">>, <<"f","o","o","d">>, <<"g","r","u","b","h","u","b">>, <<"d","o","o","r","d","a","s","h">>, <<"u","b","e","r","e","a","t","s">> >>],
    [key |-> "groceries", category |-> "Food & Dining", subcategory |-> "Groceries",
     keywords |-> << <<"g","r","o","c","e","r","y">>, <<"s","u","p","e","r","m","a","r","k","e","t">>, <<"w","a","l","m","a","r","t">>, <<"t","a","r","g","e","t">>, <<"k","r","o","g","e","r">>, <<"s","a","f","e","w","a","y">>, <<"w","h","o","l","e"," ","f","o","o","d","s">>, <<"t","r","a","d","e","r"," ","j","o","e">> >>],
    [key |-> "gas_fuel", category |-> "Transport", subcategory |-> "Gas & Fuel",
     keywords |-> << <<"g","a","s">>, <<"f","u","e","l">>, <<"s","h","e","l","l">>, <<"e","x","x","o","n">>, <<"c","h","e","v","r","o","n">>, <<"b","p">>, <<"m","o","b","i","l">>, <<"s","t","a","t","i","o","n">> >>],
    [key |-> "parking_tolls", category |-> "Transport", subcategory |-> "Parking & Tolls",
     keywords |-> << <<"p","a","r","k","i","n","g">>, <<"t","o","l","l">>, <<"m","e","t","e","r">>, <<"g","a","r","a","g","e">> >>],
    [key |-> "public_transport", category |-> "Transport", subcategory |-> "Public Transportation",
     keywords |-> << <<"m","e","t","r","o">>, <<"s","u","b","w","a","y">>, <<"b","u","s">>, <<"t","r","a","i","n">>, <<"u","b","e","r">>, <<"l","y","f","t">>, <<"t","a","x","i">>, <<"t","r","a","n","s","i","t">> >>],
    [key |-> "entertainment", category |-> "Entertainment", subcategory |-> Undefined,
     keywords |-> << <<"m","o","v","i","e">>, <<"t","h","e","a","t","e","r">>, <<"c","i","n","e","m","a">>, <<"n","e","t","f","l","i","x">>, <<"s","p","o","t","i","f","y">>, <<"h","u","l","u">>, <<"d","i","s","n","e","y">>, <<"g","a","m","i","n","g">>, <<"c","o","n","c","e","r","t">>, <<"t","i","c","k","e","t","s">> >>],
    [key |-> "shopping_general", category |-> "Shopping", subcategory |-> Undefined,
     keywords |-> << <<"a","m","a","z","o","n">>, <<"e","b","a","y">>, <<"s","t","o","r","e">>, <<"r","e","t","a","i","l">>, <<"s","h","o","p">>, <<"p","u","r","c","h","a","s","e">>, <<"b","u","y">> >>],
    [key |-> "utilities_electric", category |-> "Bills & Utilities", subcategory |-> "Electricity",
     keywords |-> << <<"e","l","e","c","t","r","i","c">>, <<"p","o","w","e","r">>, <<"u","t","i","l","i","t","y">>, <<"p","g","e">>, <<"e","d","i","s","o","n">> >>],
    [key |-> "utilities_gas", category |-> "Bills & Utilities", subcategory |-> "Gas",
     keywords |-> << <<"g","a","s"," ","c","o","m","p","a","n","y">>, <<"n","a","t","u","r","a","l"," ","g","a","s">> >>],
    [key |-> "utilities_water", category |-> "Bills & Utilities", subcategory |-> "Water",
     keywords |-> << <<"w","a","t","e","r">>, <<"s","e","w","e","r">> >>],
    [key |-> "utilities_phone", category |-> "Bills & Utilities", subcategory |-> "Phone",
     keywords |-> << <<"v","e","r","i","z","o","n">>, <<"a","t","t">>, <<"t","-","m","o","b","i","l","e">>, <<"s","p","r","i","n","t">>, <<"p","h","o","n","e">>, <<"c","e","l","l","u","l","a","r">>, <<"w","i","r","e","l","e","s","s">> >>],
    [key |-> "utilities_internet", category |-> "Bills & Utilities", subcategory |-> "Internet",
     keywords |-> << <<"c","o","m","c","a","s","t">>, <<"x","f","i","n","i","t","y">>, <<"i","n","t","e","r","n","e","t">>, <<"b","r","o","a","d","b","a","n","d">>, <<"w","i","f","i">> >>],
    [key |-> "healthcare_medical", category |-> "Healthcare", subcategory |-> "Medical",
     keywords |-> << <<"d","o","c","t","o","r">>, <<"h","o","s","p","i","t","a","l">>, <<"c","l","i","n","i","c">>, <<"m","e","d","i","c","a","l">>, <<"p","h","a","r","m","a","c","y">>, <<"c","v","s">>, <<"w","a","l","g","r","e","e","n","s">> >>],
    [key |-> "healthcare_dental", category |-> "Healthcare", subcategory |-> "Dental",
     keywords |-> << <<"d","e","n","t","a","l">>, <<"d","e","n","t","i","s","t">>, <<"o","r","t","h","o","d","o","n","t">> >>],
    [key |-> "education", category |-> "Education", subcategory |-> Undefined,
     keywords |-> << <<"s","c","h","o","o","l">>, <<"u","n","i","v","e","r","s","i","t","y">>, <<"c","o","l","l","e","g","e">>, <<"t","u","i","t","i","o","n">>, <<"e","d","u","c","a","t","i","o","n">>, <<"c","o","u","r","s","e">>, <<"t","e","x","t","b","o","o","k">> >>],
    [key |-> "travel_accommodation", category |-> "Travel", subcategory |-> "Accommodation",
     keywords |-> << <<"h","o","t","e","l">>, <<"m","o","t","e","l">>, <<"a","i","r","b","n","b">>, <<"b","o","o","k","i","n","g">>, <<"e","x","p","e","d","i","a">>, <<"l","o","d","g","i","n","g">> >>],
    [key |-> "travel_transport", category |-> "Travel", subcategory |-> "Transportation",
     keywords |-> << <<"a","i","r","l","i","n","e">>, <<"f","l","i","g","h","t">>, <<"a","i","r","p","o","r","t">>, <<"r","e","n","t","a","l"," ","c","a","r">>, <<"h","e","r","t","z">>, <<"a","v","i","s">> >>],
    [key |-> "personal_care", category |-> "Personal Care", subcategory |-> Undefined,
     keywords |-> << <<"s","a","l","o","n">>, <<"s","p","a">>, <<"h","a","i","r","c","u","t">>, <<"b","a","r","b","e","r">>, <<"c","o","s","m","e","t","i","c">>, <<"b","e","a","u","t","y">> >>],
    [key |-> "home_garden", category |-> "Home & Garden", subcategory |-> Undefined,
     keywords |-> << <<"h","o","m","e"," ","d","e","p","o","t">>, <<"l","o","w","e","s">>, <<"h","a","r","d","w","a","r","e">>, <<"g","a","r","d","e","n">>, <<"f","u","r","n","i","t","u","r","e">>, <<"a","p","p","l","i","a","n","c","e">> >>],
    [key |-> "insurance_auto", category |-> "Insurance", subcategory |-> "Auto",
     keywords |-> << <<"a","u","t","o"," ","i","n","s","u","r","a","n","c","e">>, <<"c","a","r"," ","i","n","s","u","r","a","n","c","e">>, <<"g","e","i","c","o">>, <<"s","t","a","t","e"," ","f","a","r","m">>, <<"p","r","o","g","r","e","s","s","i","v","e">> >>],
    [key |-> "insurance_health", category |-> "Insurance", subcategory |-> "Health",
     keywords |-> << <<"h","e","a","l","t","h"," ","i","n","s","u","r","a","n","c","e">>, <<"m","e","d","i","c","a","l"," ","i","n","s","u","r","a","n","c","e">> >>],
    [key |-> "insurance_home", category |-> "Insurance", subcategory |-> "Home",
     keywords |-> << <<"h","o","m","e"," ","i","n","s","u","r","a","n","c","e">>, <<"h","o","m","e","o","w","n","e","r">>, <<"p","r","o","p","e","r","t","y"," ","i","n","s","u","r","a","n","c","e">> >>],
    [key |-> "salary_income", category |-> "Salary", subcategory |-> Undefined,
     keywords |-> << <<"s","a","l","a","r","y">>, <<"p","a","y","c","h","e","c","k">>, <<"w","a","g","e","s">>, <<"p","a","y","r","o","l","l">>, <<"d","i","r","e","c","t"," ","d","e","p","o","s","i","t">>, <<"e","m","p","l","o","y","e","r">> >>],
    [key |-> "freelance_income", category |-> "Freelance", subcategory |-> Undefined,
     keywords |-> << <<"f","r","e","e","l","a","n","c","e">>, <<"c","o","n","t","r","a","c","t","o","r">>, <<"c","o","n","s","u","l","t","i","n","g">>, <<"g","i","g">>, <<"u","p","w","o","r","k">>, <<"f","i","v","e","r","r">> >>],
    [key |-> "investment_income", category |-> "Investment", subcategory |-> Undefined,
     keywords |-> << <<"d","i","v","i","d","e","n","d">>, <<"i","n","t","e","r","e","s","t">>, <<"i","n","v","e","s","t","m","e","n","t">>, <<"s","t","o","c","k">>, <<"b","o","n","d">>, <<"m","u","t","u","a","l"," ","f","u","n","d">>, <<"e","t","f">> >>],
    [key |-> "business_income", category |-> "Business Income", subcategory |-> Undefined,
     keywords |-> << <<"b","u","s","i","n","e","s","s">>, <<"r","e","v","e","n","u","e">>, <<"s","a","l","e","s">>, <<"c","l","i","e","n","t"," ","p","a","y","m","e","n","t">> >>],
    [key |-> "atm_fees", category |-> "Other Expenses", subcategory |-> "ATM Fees",
     keywords |-> << <<"a","t","m"," ","f","e","e">>, <<"w","i","t","h","d","r","a","w","a","l"," ","f","e","e">>, <<"f","o","r","e","i","g","n"," ","t","r","a","n","s","a","c","t","i","o","n">> >>],
    [key |-> "rent_housing", category |-> "Home & Garden", subcategory |-> "Rent",
     keywords |-> << <<"r","e","n","t">>, <<"l","e","a","s","e">>, <<"h","o","u","s","i","n","g">>, <<"a","p","a","r","t","m","e","n","t">>, <<"m","o","r","t","g","a","g","e">> >>]
  >>

\* confidences, in tenths
ConfRules == 8
ConfDefault == 3
ConfAI == 9

\* the rule has a keyword that occurs in the lower-cased description
RuleMatches(lowerDesc, rule) ==
  \E k \in DOMAIN rule.keywords : Includes(lowerDesc, ToLowerCase(rule.keywords[k]))

\* FirstMatchingRule changed so that the last matching rule wins
LastMatchingRule(lowerDesc, r) ==
  LET M == {q \in r..Len(CATEGORIZATION_RULES) :
              RuleMatches(lowerDesc, CATEGORIZATION_RULES[q])}
  IN  IF M = {} THEN 0 ELSE CHOOSE q \in M : \A p \in M : p <= q

\* the loop over Object.entries(CATEGORIZATION_RULES): index of the first rule,
\* from r on, that matches; 0 when the loop runs out
RECURSIVE FirstMatchingRule(_, _)
FirstMatchingRule(lowerDesc, r) ==
  IF r > Len(CATEGORIZATION_RULES) THEN 0
  ELSE IF RuleMatches(lowerDesc, CATEGORIZATION_RULES[r]) THEN r
  ELSE FirstMatchingRule(lowerDesc, r + 1)

\* categorizeWithRules(description): CategoryResult
CategorizeWithRules(description) ==
  LET lowerDesc == ToLowerCase(description)
      r == FirstMatchingRule(lowerDesc, 1)
  IN  IF r # 0
        THEN [category |-> CATEGORIZATION_RULES[r].category,
              subcategory |-> CATEGORIZATION_RULES[r].subcategory,
              confidence |-> ConfRules,
              source |-> "rules"]
        ELSE [category |-> "Other Expenses",
              subcategory |-> Undefined,
              confidence |-> ConfDefault,
              source |-> "rules"]

(* The answer of the remote classification collaborator to one fetch:        *)
(*   kind  "reject"  fetch itself rejects (network error)                    *)
(*         "http"    a response arrived; ok is response.ok                   *)
(*   json  "malformed" response.json() rejects; "null" the body is null;     *)
(*         "object"  the body is an object whose field categories is         *)
(*                   ctype "undefined" (absent), "array" (items are its      *)
(*                   elements) or "string" (items are its characters)        *)
AIResponse(kind, ok, json, ctype, items) ==
  [kind |-> kind, ok |-> ok, json |-> json, ctype |-> ctype, items |-> items]

\* the try block of categorizeWithAI
CategorizeWithAITry(descriptions, resp) ==
  IF resp.kind = "reject" THEN Throw("fetch failed")
  ELSE IF ~resp.ok THEN Throw("AI API failed")
  ELSE IF resp.json = "malformed" THEN Throw("invalid json")
  ELSE IF resp.json = "null" THEN Throw("TypeError")
  ELSE IF resp.ctype = "undefined" \/ (resp.ctype = "string" /\ resp.items = <<>>)
    THEN Return([ctype |-> "array", items |-> <<>>])     \* result.categories || []
  ELSE Return([ctype |-> resp.ctype, items |-> resp.items])

\* categorizeWithAI(descriptions): the catch block answers with the rule categories
CategorizeWithAI(descriptions, resp) ==
  LET t == CategorizeWithAITry(descriptions, resp)
  IN  IF t.threw
        THEN Return([ctype |-> "array",
                     items |-> [i \in 1..Len(descriptions) |->
                                  CategorizeWithRules(descriptions[i]).category]])
        ELSE t

\* LabelOr changed so that the default for an empty label is dropped
LabelRaw(aiCategories, index) ==
  IF index \in DOMAIN aiCategories.items THEN aiCategories.items[index] ELSE Undefined

\* aiCategories[index] || 'Other Expenses'
LabelOr(aiCategories, index) ==
  IF index \in DOMAIN aiCategories.items /\ aiCategories.items[index] # ""
    THEN aiCategories.items[index]
    ELSE "Other Expenses"

\* { ...transaction, category, subcategory, confidence, categorySource }
Categorized(transaction, category, subcategory, confidence, categorySource) ==
  [date |-> transaction.date,
   description |-> transaction.description,
   amount |-> transaction.amount,
   balance |-> transaction.balance,
   merchant |-> transaction.merchant,
   type |-> transaction.type,
   category |-> category,
   subcategory |-> subcategory,
   confidence |-> confidence,
   categorySource |-> categorySource]

\* the rule-based fallback at the end of categorizeTransactions
RuleFallback(transactions) ==
  [i \in 1..Len(transactions) |->
     LET result == CategorizeWithRules(transactions[i].description)
     IN  Categorized(transactions[i], result.category, result.subcategory,
                     result.confidence, result.source)]

\* CategorizeTransactionsTry changed so that label i + 1 goes to transaction i
CategorizeTransactionsTryShifted(transactions, resp) ==
  LET descriptions == [i \in 1..Len(transactions) |-> transactions[i].description]
      ai == CategorizeWithAI(descriptions, resp)
  IN  IF Len(ai.value.items) = Len(transactions)
        THEN [threw |-> FALSE, returned |-> TRUE,
              value |-> [i \in 1..Len(transactions) |->
                           Categorized(transactions[i], LabelOr(ai.value, i + 1),
                                       Undefined, ConfAI, "ai")]]
        ELSE [threw |-> FALSE, returned |-> FALSE, value |-> <<>>]

\* the try block of categorizeTransactions; returned is FALSE when it falls through
CategorizeTransactionsTry(transactions, resp) ==
  LET descriptions == [i \in 1..Len(transactions) |-> transactions[i].description]
      ai == CategorizeWithAI(descriptions, resp)
  IN  IF ai.threw THEN [threw |-> TRUE, returned |-> FALSE, value |-> <<>>]
      ELSE IF Len(ai.value.items) = Len(transactions)
        THEN [threw |-> FALSE, returned |-> TRUE,
              value |-> [i \in 1..Len(transactions) |->
                           Categorized(transactions[i], LabelOr(ai.value, i),
                                       Undefined, ConfAI, "ai")]]
      ELSE [threw |-> FALSE, returned |-> FALSE, value |-> <<>>]

\* categorizeTransactions(transactions): Promise<CategorizedTransaction[]>
CategorizeTransactions(transactions, resp) ==
  LET t == CategorizeTransactionsTry(transactions, resp)
  IN  IF t.returned THEN Return(t.value) ELSE Return(RuleFallback(transactions))

\* InputAfterCategorize changed so that the category fields are written into
\* the records handed in
InputAfterCategorizeInPlace(transactions, resp) ==
  CategorizeTransactions(transactions, resp).value

\* the list handed to categorizeTransactions as it is when the call has
\* settled: neither path assigns to the list or to a record of it, the records
\* returned are built by { ...transaction, ... }
InputAfterCategorize(transactions, resp) == transactions

-----------------------------------------------------------------------------
(* Suggestions for the manual choice of a category: getCategorySuggestions *)

\* matchScore: the keywords of the rule that occur in the lower-cased description
MatchScore(lowerDesc, rule) ==
  Cardinality({k \in DOMAIN rule.keywords :
                 Includes(lowerDesc, ToLowerCase(rule.keywords[k]))})

(* Math.min(0.9, matchScore * 0.3), in units of 10^-4.  The product is one   *)
(* of double arithmetic: 0.3 and 0.6 for the scores 1 and 2,                 *)
(* 0.8999999999999999 for the score 3 (written 8999, the digits after the    *)
(* fourth cut off), and 1.2 or more from the score 4 on, where the minimum   *)
(* is 0.9.                                                                   *)
SuggestionConfidence(matchScore) ==
  IF matchScore >= 4 THEN 9000
  ELSE IF matchScore = 3 THEN 8999
  ELSE matchScore * 3000

\* the suggestion pushed for a rule with the given score
Suggestion(rule, matchScore) ==
  [category |-> rule.category,
   subcategory |-> rule.subcategory,
   confidence |-> SuggestionConfidence(matchScore),
   source |-> "rules"]

\* the loop over Object.entries(CATEGORIZATION_RULES), from rule r on
RECURSIVE PushSuggestions(_, _)
PushSuggestions(lowerDesc, r) ==
  IF r > Len(CATEGORIZATION_RULES) THEN <<>>
  ELSE IF MatchScore(lowerDesc, CATEGORIZATION_RULES[r]) > 0
    THEN <<Suggestion(CATEGORIZATION_RULES[r], MatchScore(lowerDesc, CATEGORIZATION_RULES[r]))>>
           \o PushSuggestions(lowerDesc, r + 1)
  ELSE PushSuggestions(lowerDesc, r + 1)

\* x put into a list sorted by descending confidence, behind the elements of
\* the same confidence
InsertSuggestion(sorted, x) ==
  LET ahead == Cardinality({i \in DOMAIN sorted : sorted[i].confidence >= x.confidence})
  IN  SubSeq(sorted, 1, ahead) \o <<x>> \o SubSeq(sorted, ahead + 1, Len(sorted))

\* suggestions.sort((a, b) => b.confidence - a.confidence): the sort is stable
RECURSIVE SortSuggestions(_)
SortSuggestions(suggestions) ==
  IF suggestions = <<>> THEN <<>>
  ELSE InsertSuggestion(SortSuggestions(SubSeq(suggestions, 1, Len(suggestions) - 1)),
                        suggestions[Len(suggestions)])

\* .slice(0, 3)
TopThree(suggestions) ==
  SubSeq(suggestions, 1, IF Len(suggestions) < 3 THEN Len(suggestions) ELSE 3)

\* getCategorySuggestions changed so that the suggestions are not sorted
GetCategorySuggestionsUnsorted(description) ==
  TopThree(PushSuggestions(ToLowerCase(description), 1))

\* getCategorySuggestions(description): CategoryResult[]
GetCategorySuggestions(description) ==
  TopThree(SortSuggestions(PushSuggestions(ToLowerCase(description), 1)))

-----------------------------------------------------------------------------
(* Amount normalizer: parseAmount of src/lib/file-parsers.ts (the copy in    *)
(* src/app/api/parse-pdf/route.ts is the same text)                          *)

\* amounts count units of 10^-FracDigits
FracDigits == 3
Unit == 10 ^ FracDigits

Abs(x) == IF x < 0 THEN 0 - x ELSE x

\* the value of each digit
ValueOfDigit == [c \in DigitSet |-> (CHOOSE i \in DOMAIN Digits : Digits[i] = c) - 1]

DigitVal(c) == ValueOfDigit[c]

\* length of the run of digits of s that starts at position i
RECURSIVE DigitRun(_, _)
DigitRun(s, i) ==
  IF i <= Len(s) /\ IsDigit(s[i]) THEN 1 + DigitRun(s, i + 1) ELSE 0

\* the number a string of digits denotes
RECURSIVE NatOf(_)
NatOf(ds) ==
  IF ds = <<>> THEN 0
  ELSE 10 * NatOf(SubSeq(ds, 1, Len(ds) - 1)) + DigitVal(ds[Len(ds)])

\* the fraction a string of digits after the point denotes, in units
RECURSIVE FracOf(_, _)
FracOf(ds, k) ==
  IF k > FracDigits \/ k > Len(ds) THEN 0
  ELSE DigitVal(ds[k]) * 10 ^ (FracDigits - k) + FracOf(ds, k + 1)

NaN == [nan |-> TRUE, v |-> 0]

(* parseFloat: skips leading white space and reads the longest prefix that   *)
(* is a decimal literal (sign, digits, point, digits); NaN when there is     *)
(* none.  Exponents and "Infinity" are not read: the modelled texts hold no  *)
(* digit followed by e, and no I.                                            *)
ParseFloat(string) ==
  LET t == TrimStart(string)
      signed == t # <<>> /\ t[1] \in {"+", "-"}
      b == IF signed THEN 2 ELSE 1
      n1 == DigitRun(t, b)
      hasPoint == b + n1 <= Len(t) /\ t[b + n1] = "."
      n2 == IF hasPoint THEN DigitRun(t, b + n1 + 1) ELSE 0
      magnitude == NatOf(SubSeq(t, b, b + n1 - 1)) * Unit
                     + FracOf(SubSeq(t, b + n1 + 1, b + n1 + n2), 1)
  IN  IF n1 = 0 /\ n2 = 0 THEN NaN
      ELSE [nan |-> FALSE,
            v |-> IF signed /\ t[1] = "-" THEN 0 - magnitude ELSE magnitude]

\* the currency symbols of the character class: $ and the pound, euro and yen signs
CurrencySymbols == {"$", "GBP", "EUR", "JPY"}

\* String.prototype.replace(/[...]/g, '') for a class of characters
RemoveChars(s, class) == SelectSeq(s, LAMBDA c : c \notin class)

\* the two replace calls and the trim of parseAmount
Undressed(value) ==
  Trim(RemoveChars(RemoveChars(value, CurrencySymbols \cup {",", " ", "\t"}), {"(", ")"}))

\* ParseAmount changed so that parentheses flip the sign of the number
ParseAmountNegating(value) ==
  IF value = <<>> \/ Trim(value) = <<>> THEN 0
  ELSE IF ParseFloat(Undressed(value)).nan THEN 0
  ELSE IF Includes(value, <<"(">>) /\ Includes(value, <<")">>)
    THEN 0 - ParseFloat(Undressed(value)).v
  ELSE ParseFloat(Undressed(value)).v

\* parseAmount(value: string): number
ParseAmount(value) ==
  IF value = <<>> \/ Trim(value) = <<>> THEN 0
  ELSE LET cleanValue ==
             Trim(RemoveChars(RemoveChars(value, CurrencySymbols \cup {",", " ", "\t"}),
                              {"(", ")"}))
           isNegativeParens == Includes(value, <<"(">>) /\ Includes(value, <<")">>)
           numValue == ParseFloat(cleanValue)
       IN  IF numValue.nan THEN 0
           ELSE IF isNegativeParens THEN 0 - Abs(numValue.v) ELSE numValue.v

-----------------------------------------------------------------------------
(* Date normalizer: parseDate of src/lib/file-parsers.ts *)

(* What the run-time environment contributes to a date:                      *)
(*   today    the UTC calendar date of the clock, <<year, month, day>>       *)
(*   east     the local time zone is ahead of UTC, so that local midnight    *)
(*            falls on the previous UTC day                                  *)
(*   lenient  Date.parse also reads month/day/year (as V8 does); the         *)
(*            language only fixes the ISO form, the rest is left to the      *)
(*            implementation                                                 *)
Clock(today, east, lenient) == [today |-> today, east |-> east, lenient |-> lenient]

IsLeap(y) == (y % 4 = 0 /\ y % 100 # 0) \/ y % 400 = 0

DaysInMonth(y, m) ==
  IF m = 2 THEN (IF IsLeap(y) THEN 29 ELSE 28)
  ELSE IF m \in {4, 6, 9, 11} THEN 30
  ELSE 31

\* the calendar date of day d of month m (1..12) of year y, d outside the month
\* carried into the months after or before
RECURSIVE RollDay(_, _, _)
RollDay(y, m, d) ==
  IF d > DaysInMonth(y, m)
    THEN IF m = 12 THEN RollDay(y + 1, 1, d - 31)
         ELSE RollDay(y, m + 1, d - DaysInMonth(y, m))
  ELSE IF d < 1
    THEN IF m = 1 THEN RollDay(y - 1, 12, d + 31)
         ELSE RollDay(y, m - 1, d + DaysInMonth(y, m - 1))
  ELSE <<y, m, d>>

\* the UTC calendar date of local midnight of a local calendar date
LocalMidnightUTC(ymd, clock) ==
  IF clock.east THEN RollDay(ymd[1], ymd[2], ymd[3] - 1) ELSE ymd

\* new Date(year, monthIndex, day) with monthIndex = month - 1: years 0..99 are
\* 1900..1999, months and days outside their range carry over
DateOfParts(year, month, day) ==
  LET y0 == IF year \in 0..99 THEN 1900 + year ELSE year
      y == y0 + ((month - 1) \div 12)
      m == ((month - 1) % 12) + 1
  IN  RollDay(y, m, day)

\* n written with at least w digits
RECURSIVE Pad(_, _)
Pad(n, w) ==
  IF w <= 1 /\ n < 10 THEN <<Digits[n + 1]>>
  ELSE Pad(n \div 10, w - 1) \o <<Digits[(n % 10) + 1]>>

\* date.toISOString().split('T')[0], for years 0..9999
ISODate(ymd) == Pad(ymd[1], 4) \o <<"-">> \o Pad(ymd[2], 2) \o <<"-">> \o Pad(ymd[3], 2)

\* String.prototype.split(sep) for a one-character separator
RECURSIVE Split(_, _)
Split(s, sep) ==
  IF \A i \in DOMAIN s : s[i] # sep THEN <<s>>
  ELSE LET i == CHOOSE i \in DOMAIN s :
                  s[i] = sep /\ \A j \in 1..(i - 1) : s[j] # sep
       IN  <<SubSeq(s, 1, i - 1)>> \o Split(SubSeq(s, i + 1, Len(s)), sep)

\* s is between lo and hi digits and nothing else: ^\d{lo,hi}$
IsDigits(s, lo, hi) == Len(s) \in lo..hi /\ \A i \in DOMAIN s : IsDigit(s[i])

\* the three parts of s when it matches ^(\d{a1,a2})sep(\d{b1,b2})sep(\d{c1,c2})$,
\* <<>> when it does not
MatchDate(s, sep, a1, a2, b1, b2, c1, c2) ==
  LET parts == Split(s, sep)
  IN  IF /\ Len(parts) = 3
         /\ IsDigits(parts[1], a1, a2)
         /\ IsDigits(parts[2], b1, b2)
         /\ IsDigits(parts[3], c1, c2)
        THEN parts
        ELSE <<>>

Invalid == <<>>

(* new Date(string) followed by toISOString: the UTC calendar date, or       *)
(* Invalid.  The ISO date form is read as UTC midnight; month/day/year is    *)
(* read, by an engine that reads it at all, as local midnight, with a day    *)
(* beyond the end of the month carried over; every other text of the model   *)
(* is Invalid.                                                               *)
DateConstructor(string, clock) ==
  LET iso == MatchDate(string, "-", 4, 4, 2, 2, 2, 2)
      us == MatchDate(string, "/", 1, 2, 1, 2, 4, 4)
  IN  IF iso # <<>>
        THEN LET y == NatOf(iso[1])
                 m == NatOf(iso[2])
                 d == NatOf(iso[3])
             IN  IF m \in 1..12 /\ d \in 1..DaysInMonth(y, m) THEN <<y, m, d>> ELSE Invalid
      ELSE IF us # <<>> /\ clock.lenient
        THEN LET m == NatOf(us[1])
                 d == NatOf(us[2])
                 y == NatOf(us[3])
             IN  IF m \in 1..12 /\ d \in 1..31
                   THEN LocalMidnightUTC(RollDay(y, m, d), clock)
                   ELSE Invalid
      ELSE Invalid

\* the manual parsing of one matched format: parts are the three captures,
\* yearFirst tells the YYYY-MM-DD format from the others
ManualDate(parts, yearFirst, clock) ==
  LET part1 == parts[1]
      part2 == parts[2]
      part3 == parts[3]
      dayFirst == ~yearFirst /\ NatOf(part1) > 12
      year0 == IF yearFirst THEN part1 ELSE part3
      month == IF yearFirst THEN part2 ELSE IF dayFirst THEN part2 ELSE part1
      day == IF yearFirst THEN part3 ELSE IF dayFirst THEN part1 ELSE part2
      currentCentury == (clock.today[1] \div 100) * 100
      year == IF Len(year0) = 2 THEN currentCentury + NatOf(year0) ELSE NatOf(year0)
  IN  LocalMidnightUTC(DateOfParts(year, NatOf(month), NatOf(day)), clock)

\* parseDate(dateStr: string): string
ParseDate(dateStr, clock) ==
  IF dateStr = <<>> THEN ISODate(clock.today)
  ELSE LET cleanDate == Trim(dateStr)
           date == DateConstructor(cleanDate, clock)
           slash == MatchDate(cleanDate, "/", 1, 2, 1, 2, 2, 4)
           isoLike == MatchDate(cleanDate, "-", 4, 4, 1, 2, 1, 2)
           dash == MatchDate(cleanDate, "-", 1, 2, 1, 2, 2, 4)
       IN  IF date # Invalid THEN ISODate(date)
           ELSE IF slash # <<>> THEN ISODate(ManualDate(slash, FALSE, clock))
           ELSE IF isoLike # <<>> THEN ISODate(ManualDate(isoLike, TRUE, clock))
           ELSE IF dash # <<>> THEN ISODate(ManualDate(dash, FALSE, clock))
           ELSE ISODate(clock.today)

-----------------------------------------------------------------------------
(* Merchant extractor: extractMerchantName of src/lib/file-parsers.ts (the   *)
(* copy in src/app/api/parse-pdf/route.ts is the same text)                  *)

MerchantPrefixes ==
  << <<"p","o","s">>, <<"a","t","m">>, <<"a","c","h">>, <<"c","h","e","c","k">>,
     <<"t","r","a","n","s","f","e","r">>, <<"p","a","y","m","e","n","t">>, <<"d","e","p","o","s","i","t">> >>

\* length of the run of white space of s that starts at position i
RECURSIVE SpaceRun(_, _)
SpaceRun(s, i) ==
  IF i <= Len(s) /\ IsSpace(s[i]) THEN 1 + SpaceRun(s, i + 1) ELSE 0

\* length of the run of * of s that starts at position i
RECURSIVE StarRun(_, _)
StarRun(s, i) ==
  IF i <= Len(s) /\ s[i] = "*" THEN 1 + StarRun(s, i + 1) ELSE 0

\* .replace(/^(POS|ATM|ACH|CHECK|TRANSFER|PAYMENT|DEPOSIT)\s+/i, '')
StripPrefix(s) ==
  LET hits == {p \in DOMAIN MerchantPrefixes :
                 /\ OccursAt(ToLowerCase(s), MerchantPrefixes[p], 1)
                 /\ SpaceRun(s, Len(MerchantPrefixes[p]) + 1) > 0}
  IN  IF hits = {} THEN s
      ELSE LET p == CHOOSE p \in hits : \A q \in hits : p <= q
               n == Len(MerchantPrefixes[p])
           IN  SubSeq(s, n + 1 + SpaceRun(s, n + 1), Len(s))

\* s has n digits from position i on
DigitsAt(s, i, n) == \A j \in i..(i + n - 1) : j <= Len(s) /\ IsDigit(s[j])

\* length of the match of /\d{4}\*+\d{4}/ at position i, 0 when there is none
CardMatch(s, i) ==
  LET stars == StarRun(s, i + 4)
  IN  IF DigitsAt(s, i, 4) /\ stars > 0 /\ DigitsAt(s, i + 4 + stars, 4)
        THEN 8 + stars ELSE 0

\* length of the match of /\d{2}\/\d{2}\/\d{4}/ at position i, 0 when there is none
LongDateMatch(s, i) ==
  IF /\ DigitsAt(s, i, 2) /\ i + 2 <= Len(s) /\ s[i + 2] = "/"
     /\ DigitsAt(s, i + 3, 2) /\ i + 5 <= Len(s) /\ s[i + 5] = "/"
     /\ DigitsAt(s, i + 6, 4)
    THEN 10 ELSE 0

\* length of the match of /\d{2}\/\d{2}/ at position i, 0 when there is none
ShortDateMatch(s, i) ==
  IF DigitsAt(s, i, 2) /\ i + 2 <= Len(s) /\ s[i + 2] = "/" /\ DigitsAt(s, i + 3, 2)
    THEN 5 ELSE 0

\* .replace(/\d{4}\*+\d{4}/g, ''), from position i on
RECURSIVE RemoveCards(_, _)
RemoveCards(s, i) ==
  IF i > Len(s) THEN <<>>
  ELSE IF CardMatch(s, i) > 0 THEN RemoveCards(s, i + CardMatch(s, i))
  ELSE <<s[i]>> \o RemoveCards(s, i + 1)

\* .replace(/\d{2}\/\d{2}\/\d{4}/g, ''), from position i on
RECURSIVE RemoveLongDates(_, _)
RemoveLongDates(s, i) ==
  IF i > Len(s) THEN <<>>
  ELSE IF LongDateMatch(s, i) > 0 THEN RemoveLongDates(s, i + 10)
  ELSE <<s[i]>> \o RemoveLongDates(s, i + 1)

\* .replace(/\d{2}\/\d{2}/g, ''), from position i on
RECURSIVE RemoveShortDates(_, _)
RemoveShortDates(s, i) ==
  IF i > Len(s) THEN <<>>
  ELSE IF ShortDateMatch(s, i) > 0 THEN RemoveShortDates(s, i + 5)
  ELSE <<s[i]>> \o RemoveShortDates(s, i + 1)

\* .replace(/\s+/g, ' '), from position i on
CollapseSpaces(s, i) ==
  LET kept == SelectSeq([p \in 1..(Len(s) - i + 1) |-> p + i - 1],
                        LAMBDA p : ~IsSpace(s[p]) \/ p = i \/ ~IsSpace(s[p - 1]))
  IN  [k \in 1..Len(kept) |-> IF IsSpace(s[kept[k]]) THEN " " ELSE s[kept[k]]]

\* parts joined by single spaces
RECURSIVE Join(_)
Join(parts) ==
  IF parts = <<>> THEN <<>>
  ELSE IF Len(parts) = 1 THEN parts[1]
  ELSE parts[1] \o <<" ">> \o Join(Tail(parts))

\* extractMerchantName(description): the merchant as <<text>>, <<>> for undefined
ExtractMerchantName(description) ==
  IF description = <<>> THEN <<>>
  ELSE LET cleaned ==
             Trim(CollapseSpaces(
               RemoveShortDates(
                 RemoveLongDates(
                   RemoveCards(StripPrefix(description), 1), 1), 1), 1))
           parts == Split(cleaned, " ")
       IN  IF Len(parts[1]) > 2
             THEN <<Join(SubSeq(parts, 1, IF Len(parts) < 3 THEN Len(parts) ELSE 3))>>
             ELSE <<>>

-----------------------------------------------------------------------------
(* Column schema detector: src/lib/file-parsers.ts *)

\* COLUMN_MAPPINGS; a field a bank's table lacks has no names (mappings.x || [])
COLUMN_MAPPINGS ==
  [generic |->
     [date |-> << <<"d","a","t","e">>, <<"t","r","a","n","s","a","c","t","i","o","n","_","d","a","t","e">>, <<"t","r","a","n","s","_","d","a","t","e">>, <<"p","o","s","t","i","n","g","_","d","a","t","e">> >>,
      description |-> << <<"d","e","s","c","r","i","p","t","i","o","n">>, <<"d","e","t","a","i","l">>, <<"m","e","m","o">>, <<"p","a","r","t","i","c","u","l","a","r","s">>, <<"t","r","a","n","s","a","c","t","i","o","n","_","d","e","t","a","i","l","s">> >>,
      amount |-> << <<"a","m","o","u","n","t">>, <<"d","e","b","i","t">>, <<"c","r","e","d","i","t">>, <<"t","r","a","n","s","a","c","t","i","o","n","_","a","m","o","u","n","t">>, <<"v","a","l","u","e">> >>,
      balance |-> << <<"b","a","l","a","n","c","e">>, <<"r","u","n","n","i","n","g","_","b","a","l","a","n","c","e">>, <<"a","c","c","o","u","n","t","_","b","a","l","a","n","c","e">> >>,
      reference |-> << <<"r","e","f","e","r","e","n","c","e">>, <<"r","e","f">>, <<"t","r","a","n","s","a","c","t","i","o","n","_","i","d">>, <<"c","h","e","q","u","e","_","n","o">> >>,
      type |-> << <<"t","y","p","e">>, <<"t","r","a","n","s","a","c","t","i","o","n","_","t","y","p","e">>, <<"d","r","_","c","r">> >>],
    chase |->
     [date |-> << <<"t","r","a","n","s","a","c","t","i","o","n","_","d","a","t","e">> >>,
      description |-> << <<"d","e","s","c","r","i","p","t","i","o","n">> >>,
      amount |-> << <<"a","m","o","u","n","t">> >>,
      balance |-> << <<"b","a","l","a","n","c","e">> >>,
      reference |-> <<>>,
      type |-> << <<"t","y","p","e">> >>],
    bankofamerica |->
     [date |-> << <<"d","a","t","e">> >>,
      description |-> << <<"d","e","s","c","r","i","p","t","i","o","n">> >>,
      amount |-> << <<"a","m","o","u","n","t">> >>,
      balance |-> << <<"r","u","n","n","i","n","g","_","b","a","l">> >>,
      reference |-> <<>>,
      type |-> <<>>],
    wells_fargo |->
     [date |-> << <<"d","a","t","e">> >>,
      description |-> << <<"d","e","s","c","r","i","p","t","i","o","n">> >>,
      amount |-> << <<"a","m","o","u","n","t">> >>,
      balance |-> <<>>,
      reference |-> <<>>,
      type |-> <<>>]]

IsAlnumLower(c) == IsLower(c) \/ IsDigit(c)

\* .replace(/_{2,}/g, '_'), from position i on
RECURSIVE CollapseUnderscores(_, _)
CollapseUnderscores(s, i) ==
  IF i > Len(s) THEN <<>>
  ELSE IF s[i] = "_" /\ i < Len(s) /\ s[i + 1] = "_" THEN CollapseUnderscores(s, i + 1)
  ELSE <<s[i]>> \o CollapseUnderscores(s, i + 1)

\* .replace(/^_|_$/g, '')
StripUnderscores(s) ==
  LET a == IF s # <<>> /\ s[1] = "_" THEN Tail(s) ELSE s
  IN  IF a # <<>> /\ a[Len(a)] = "_" THEN SubSeq(a, 1, Len(a) - 1) ELSE a

\* normalizeColumnName(column: string): string
NormalizeColumnName(column) ==
  LET lower == ToLowerCase(column)
      replaced == [i \in 1..Len(lower) |-> IF IsAlnumLower(lower[i]) THEN lower[i] ELSE "_"]
  IN  StripUnderscores(CollapseUnderscores(replaced, 1))

\* normalizedHeaders.findIndex(pred): the 0-based index of the first header that
\* contains the name or is contained in it, -1 when there is none
FindIndexOfName(normalizedHeaders, normalizedName) ==
  LET hits == {i \in DOMAIN normalizedHeaders :
                 \/ Includes(normalizedHeaders[i], normalizedName)
                 \/ Includes(normalizedName, normalizedHeaders[i])}
  IN  IF hits = {} THEN 0 - 1
      ELSE (CHOOSE i \in hits : \A j \in hits : i <= j) - 1

\* the loop of findColumnIndex over possibleNames, from name n on
RECURSIVE FindColumnIndexFrom(_, _, _)
FindColumnIndexFrom(normalizedHeaders, possibleNames, n) ==
  IF n > Len(possibleNames) THEN 0 - 1
  ELSE LET index == FindIndexOfName(normalizedHeaders,
                                    NormalizeColumnName(possibleNames[n]))
       IN  IF index # 0 - 1 THEN index
           ELSE FindColumnIndexFrom(normalizedHeaders, possibleNames, n + 1)

\* findColumnIndex(headers, possibleNames): number
FindColumnIndex(headers, possibleNames) ==
  FindColumnIndexFrom([i \in 1..Len(headers) |-> NormalizeColumnName(headers[i])],
                      possibleNames, 1)

\* detectBankFormat(headers): the key of COLUMN_MAPPINGS to use
DetectBankFormat(headers) ==
  LET normalizedHeaders == [i \in 1..Len(headers) |-> NormalizeColumnName(headers[i])]
      some(text) == \E i \in DOMAIN normalizedHeaders : Includes(normalizedHeaders[i], text)
  IN  IF some(<<"c","h","a","s","e">>) THEN "chase"
      ELSE IF some(<<"b","a","n","k","_","o","f","_","a","m","e","r","i","c","a">>) THEN "bankofamerica"
      ELSE IF some(<<"w","e","l","l","s","_","f","a","r","g","o">>) THEN "wells_fargo"
      ELSE "generic"

-----------------------------------------------------------------------------
(* CSV ingestor: parseCSV of src/lib/file-parsers.ts *)

(* An uploaded file:                                                         *)
(*   name, type   File.name and File.type                                    *)
(*   read   "ok"         csv-parse read the text with the header row as keys *)
(*          "recovered"  it failed, and read it without headers              *)
(*          "fails"      both attempts failed                                *)
(*          "unreadable" file.text() rejected                                *)
(*   headers, rows       the header row and the data rows csv-parse gives,   *)
(*                       blank lines skipped and fields trimmed              *)
File(name, type, read, headers, rows) ==
  [name |-> name, type |-> type, read |-> read, headers |-> headers, rows |-> rows]

\* new Error(message); headers holds the texts a message quotes, as the header
\* list
Error(message, headers) == [message |-> message, headers |-> headers]

\* new Error(`${prefix}${error.message}`)
Wrap(prefix, error) == [message |-> <<prefix>> \o error.message, headers |-> error.headers]

\* a row reference that counts the data rows only
RowErrorFromFirstRow(index, reason, literal) ==
  [row |-> index + 1, reason |-> reason, literal |-> literal]

\* `Row ${index + 2}: ${reason}`, literal being the amount text a reason quotes
RowError(index, reason, literal) == [row |-> index + 2, reason |-> reason, literal |-> literal]

\* String(values[index] || '').trim()
ValueAt(values, index) ==
  IF index + 1 \in DOMAIN values THEN Trim(values[index + 1]) ELSE <<>>

\* the column indices parseCSV looks up in the header row
ColumnIndices(headers) ==
  LET mappings == COLUMN_MAPPINGS[DetectBankFormat(headers)]
  IN  [dateIndex |-> FindColumnIndex(headers, mappings.date),
       descriptionIndex |-> FindColumnIndex(headers, mappings.description),
       amountIndex |-> FindColumnIndex(headers, mappings.amount),
       balanceIndex |-> FindColumnIndex(headers, mappings.balance),
       typeIndex |-> FindColumnIndex(headers, mappings.type)]

\* the type marker of a record
TypeOf(typeStr) ==
  IF Includes(typeStr, <<"c","r","e","d","i","t">>) \/ Includes(typeStr, <<"c","r">>)
    THEN "credit"
  ELSE IF Includes(typeStr, <<"d","e","b","i","t">>) \/ Includes(typeStr, <<"d","r">>)
    THEN "debit"
  ELSE Undefined

\* the RawTransaction parseCSV builds from a record
RecordTransaction(record, cols, clock) ==
  LET description == ValueAt(record, cols.descriptionIndex)
      balanceStr == ValueAt(record, cols.balanceIndex)
      typeStr == ToLowerCase(ValueAt(record, cols.typeIndex))
  IN  [date |-> ParseDate(ValueAt(record, cols.dateIndex), clock),
       description |-> description,
       amount |-> ParseAmount(ValueAt(record, cols.amountIndex)),
       balance |-> IF cols.balanceIndex # 0 - 1 /\ balanceStr # <<>>
                     THEN <<ParseAmount(balanceStr)>> ELSE <<>>,
       type |-> IF cols.typeIndex # 0 - 1 THEN TypeOf(typeStr) ELSE Undefined,
       merchant |-> ExtractMerchantName(description)]

\* a loop body that pushes every record without looking at its fields
ProcessRecordUnchecked(acc, record, index, cols, clock) ==
  [acc EXCEPT !.transactions = Append(@, RecordTransaction(record, cols, clock))]

\* ProcessRecord changed so that a record whose amount cannot be read is
\* passed over without an error
ProcessRecordSilent(acc, record, index, cols, clock) ==
  LET dateStr == ValueAt(record, cols.dateIndex)
      description == ValueAt(record, cols.descriptionIndex)
      amountStr == ValueAt(record, cols.amountIndex)
      amount == ParseAmount(amountStr)
  IN  IF dateStr = <<>> \/ description = <<>> \/ amountStr = <<>>
        THEN [acc EXCEPT !.errors = Append(@,
                RowError(index, "Missing required data (date, description, or amount)", <<>>))]
      ELSE IF amount = 0 /\ amountStr # <<"0">> /\ amountStr # <<"0",".","0","0">>
        THEN acc
      ELSE [acc EXCEPT !.transactions = Append(@, RecordTransaction(record, cols, clock))]

\* the body of records.forEach((record, index) => ...): acc holds the
\* transactions and errors collected so far
ProcessRecord(acc, record, index, cols, clock) ==
  LET dateStr == ValueAt(record, cols.dateIndex)
      description == ValueAt(record, cols.descriptionIndex)
      amountStr == ValueAt(record, cols.amountIndex)
      amount == ParseAmount(amountStr)
  IN  IF dateStr = <<>> \/ description = <<>> \/ amountStr = <<>>
        THEN [acc EXCEPT !.errors = Append(@,
                RowError(index, "Missing required data (date, description, or amount)", <<>>))]
      ELSE IF amount = 0 /\ amountStr # <<"0">> /\ amountStr # <<"0",".","0","0">>
        THEN [acc EXCEPT !.errors = Append(@,
                RowError(index, "Could not parse amount", amountStr))]
      ELSE [acc EXCEPT !.transactions = Append(@, RecordTransaction(record, cols, clock))]

\* parseCSV up to the loop over the records: the error it throws, or the column
\* indices it goes on with
CsvStart(file) ==
  IF file.read = "unreadable" THEN Throw(Error(<<"file.text() rejected">>, <<>>))
  ELSE IF file.read = "fails" THEN Throw(Error(<<"Failed to parse CSV: ">>, <<>>))
  ELSE IF file.rows = <<>> THEN Throw(Error(<<"No data found in CSV file">>, <<>>))
  ELSE LET cols == ColumnIndices(file.headers)
       IN  IF cols.dateIndex = 0 - 1 \/ cols.descriptionIndex = 0 - 1 \/ cols.amountIndex = 0 - 1
             THEN Throw(Error(<<"Required columns not found. Expected columns containing: date, description, and amount. Found headers: ">>,
                              file.headers))
             ELSE Return(cols)

\* s < t as JavaScript compares strings, characters ordered as in order
RECURSIVE StrLess(_, _, _)
StrLess(s, t, order) ==
  IF t = <<>> THEN FALSE
  ELSE IF s = <<>> THEN TRUE
  ELSE IF s[1] = t[1] THEN StrLess(Tail(s), Tail(t), order)
  ELSE (CHOOSE i \in DOMAIN order : order[i] = s[1])
         < (CHOOSE i \in DOMAIN order : order[i] = t[1])

\* the characters of an ISO date, by character code
DateChars == <<"-">> \o Digits

\* SortDates changed so that the dates stay in the order listed
UnsortedDates(dates) == dates

\* Array.prototype.sort() of date strings
RECURSIVE SortDates(_)
SortDates(dates) ==
  IF dates = <<>> THEN <<>>
  ELSE LET rest == SortDates(Tail(dates))
           before == SelectSeq(rest, LAMBDA d : ~StrLess(dates[1], d, DateChars) /\ d # dates[1])
           after == SelectSeq(rest, LAMBDA d : StrLess(dates[1], d, DateChars) \/ d = dates[1])
       IN  before \o <<dates[1]>> \o after

\* transactions.reduce((sum, t) => sum + Math.abs(t.amount), 0)
RECURSIVE SumAbs(_)
SumAbs(transactions) ==
  IF transactions = <<>> THEN 0
  ELSE SumAbs(SubSeq(transactions, 1, Len(transactions) - 1))
         + Abs(transactions[Len(transactions)].amount)

\* the ParsedFileResult both ingestors build from what they collected
Summary(transactions, errors, filename, clock) ==
  LET sortedDates == SortDates([i \in 1..Len(transactions) |-> transactions[i].date])
  IN  [transactions |-> transactions,
       totalAmount |-> SumAbs(transactions),
       dateRange |-> [start |-> sortedDates[1], end |-> sortedDates[Len(sortedDates)]],
       errors |-> errors,
       metadata |-> [rowCount |-> Len(transactions),
                     originalFilename |-> filename,
                     parsedAt |-> ISODate(clock.today)]]

\* parseCSV after the loop
CsvFinish(file, acc, clock) ==
  IF acc.transactions = <<>>
    THEN Throw(Error(<<"No valid transactions found in the file">>, <<>>))
    ELSE Return(Summary(acc.transactions, acc.errors, file.name, clock))

\* the outer catch of parseCSV
CsvCatch(outcome) ==
  IF outcome.threw THEN Throw(Wrap("Failed to parse CSV file: ", outcome.value)) ELSE outcome

\* records.forEach over the records from index on
RECURSIVE ProcessRecords(_, _, _, _, _)
ProcessRecords(acc, rows, index, cols, clock) ==
  IF index >= Len(rows) THEN acc
  ELSE ProcessRecords(ProcessRecord(acc, rows[index + 1], index, cols, clock),
                      rows, index + 1, cols, clock)

NoRows == [transactions |-> <<>>, errors |-> <<>>]

\* parseCSV(file): Promise<ParsedFileResult>
ParseCSV(file, clock) ==
  LET start == CsvStart(file)
  IN  IF start.threw THEN CsvCatch(start)
      ELSE CsvCatch(CsvFinish(file,
                              ProcessRecords(NoRows, file.rows, 0, start.value, clock),
                              clock))

-----------------------------------------------------------------------------
(* Statement table ingestor: src/app/api/parse-pdf/route.ts *)

\* position i of s holds character c
CharAt(s, i, c) == i <= Len(s) /\ s[i] = c

\* the positions after a match, from position p, of \d{1,2}\/\d{1,2}\/\d{4}
AfterUSDate(s, p) ==
  {p + a + b + 6 : a \in {1, 2}, b \in {1, 2}} \cap
  {q \in 1..(Len(s) + 1) :
     \E a \in {1, 2}, b \in {1, 2} :
       /\ q = p + a + b + 6
       /\ DigitsAt(s, p, a) /\ CharAt(s, p + a, "/")
       /\ DigitsAt(s, p + a + 1, b) /\ CharAt(s, p + a + b + 1, "/")
       /\ DigitsAt(s, p + a + b + 2, 4)}

\* the positions after a match, from position p, of \d{4}-\d{1,2}-\d{1,2}
AfterISODate(s, p) ==
  {q \in 1..(Len(s) + 1) :
     \E a \in {1, 2}, b \in {1, 2} :
       /\ q = p + a + b + 6
       /\ DigitsAt(s, p, 4) /\ CharAt(s, p + 4, "-")
       /\ DigitsAt(s, p + 5, a) /\ CharAt(s, p + 5 + a, "-")
       /\ DigitsAt(s, p + 6 + a, b)}

\* DatePattern changed so that only the year-first form counts as a date
DatePatternYearFirst(line) == AfterISODate(line, 1) # {}

\* datePattern.test(line): the line starts with a date
DatePattern(line) == AfterUSDate(line, 1) # {} \/ AfterISODate(line, 1) # {}

\* the token is a date of the given form and nothing else
IsUSDate(token) == Len(token) + 1 \in AfterUSDate(token, 1)
IsISODate(token) == Len(token) + 1 \in AfterISODate(token, 1)

\* the positions after any number of groups ,\d{3} from the positions P
RECURSIVE AfterGroups(_, _)
AfterGroups(s, P) ==
  LET Q == P \cup {p + 4 : p \in {q \in P : CharAt(s, q, ",") /\ DigitsAt(s, q + 1, 3)}}
  IN  IF Q = P THEN P ELSE AfterGroups(s, Q)

\* the token matches [-+]?\$?\d{1,3}(?:,\d{3})*\.?\d{0,2} and nothing else
IsAmount(token) ==
  LET P1 == {1} \cup (IF CharAt(token, 1, "-") \/ CharAt(token, 1, "+") THEN {2} ELSE {})
      P2 == P1 \cup {p + 1 : p \in {q \in P1 : CharAt(token, q, "$")}}
      P3 == UNION {{p + n : n \in {m \in 1..3 : DigitsAt(token, p, m)}} : p \in P2}
      P4 == AfterGroups(token, P3)
      P5 == P4 \cup {p + 1 : p \in {q \in P4 : CharAt(token, q, ".")}}
      P6 == UNION {{p + n : n \in {m \in 0..2 : DigitsAt(token, p, m)}} : p \in P5}
  IN  Len(token) + 1 \in P6

\* the captures of the first three patterns on the tokens of a line, <<>> when
\* the pattern does not match: date, description, amount text, balance text
Pattern1(tokens) ==
  LET n == Len(tokens)
  IN  IF n >= 4 /\ IsUSDate(tokens[1]) /\ IsAmount(tokens[n - 1]) /\ IsAmount(tokens[n])
        THEN <<[dateStr |-> tokens[1], description |-> Join(SubSeq(tokens, 2, n - 2)),
                amountStr |-> tokens[n - 1], balance |-> tokens[n]]>>
        ELSE <<>>

Pattern2(tokens) ==
  LET n == Len(tokens)
  IN  IF n >= 3 /\ IsUSDate(tokens[1]) /\ IsAmount(tokens[n])
        THEN <<[dateStr |-> tokens[1], description |-> Join(SubSeq(tokens, 2, n - 1)),
                amountStr |-> tokens[n], balance |-> <<>>]>>
        ELSE <<>>

Pattern3(tokens) ==
  LET n == Len(tokens)
  IN  IF n >= 3 /\ IsUSDate(tokens[1]) /\ IsAmount(tokens[2])
        THEN <<[dateStr |-> tokens[1], description |-> Join(SubSeq(tokens, 3, n)),
                amountStr |-> tokens[2], balance |-> <<>>]>>
        ELSE <<>>

\* the fourth pattern: the lazy description stops as early as it can, so the
\* trailing balance is taken when the last two tokens are both amounts
Pattern4(tokens) ==
  LET n == Len(tokens)
  IN  IF n >= 4 /\ IsISODate(tokens[1]) /\ IsAmount(tokens[n - 1]) /\ IsAmount(tokens[n])
        THEN <<[dateStr |-> tokens[1], description |-> Join(SubSeq(tokens, 2, n - 2)),
                amountStr |-> tokens[n - 1], balance |-> tokens[n]]>>
      ELSE IF n >= 3 /\ IsISODate(tokens[1]) /\ IsAmount(tokens[n])
        THEN <<[dateStr |-> tokens[1], description |-> Join(SubSeq(tokens, 2, n - 1)),
                amountStr |-> tokens[n], balance |-> <<>>]>>
      ELSE <<>>

\* patterns[k].exec(normalizedLine)
PatternMatch(k, tokens) ==
  IF k = 1 THEN Pattern1(tokens)
  ELSE IF k = 2 THEN Pattern2(tokens)
  ELSE IF k = 3 THEN Pattern3(tokens)
  ELSE Pattern4(tokens)

\* parseDate of the route: the Date constructor, then month/day/year by hand
ParseDateRoute(dateStr, clock) ==
  LET cleanDate == Trim(dateStr)
      date == DateConstructor(cleanDate, clock)
      match == MatchDate(cleanDate, "/", 1, 2, 1, 2, 4, 4)
  IN  IF date # Invalid THEN ISODate(date)
      ELSE IF match # <<>>
        THEN ISODate(LocalMidnightUTC(
               DateOfParts(NatOf(match[3]), NatOf(match[1]), NatOf(match[2])), clock))
      ELSE ISODate(clock.today)

\* transaction.balance: set when the balance group matched and is not 0
BalanceOf(balance) ==
  IF balance # <<>> /\ ParseAmount(balance) # 0 THEN <<ParseAmount(balance)>> ELSE <<>>

\* the RawTransaction parseTransactionLine builds from the groups m of a match
LineTransaction(m, clock) ==
  [date |-> ParseDateRoute(m.dateStr, clock),
   description |-> Trim(m.description),
   amount |-> ParseAmount(m.amountStr),
   balance |-> BalanceOf(m.balance),
   type |-> Undefined,
   merchant |-> ExtractMerchantName(m.description)]

\* the loop of parseTransactionLine over the patterns, from pattern k on:
\* <<transaction>>, or <<>> for null. TryMatch is the body of the loop, match
\* being what normalizedLine.match(pattern) gave for pattern k
RECURSIVE TryPatterns(_, _, _)
\* TryMatch changed so that a match is taken whatever its amount
TryMatchAnyAmount(match, tokens, k, clock) ==
  IF match = <<>> THEN TryPatterns(tokens, k + 1, clock)
  ELSE <<LineTransaction(match[1], clock)>>

TryMatch(match, tokens, k, clock) ==
  IF match = <<>> THEN TryPatterns(tokens, k + 1, clock)
  ELSE IF ParseAmount(match[1].amountStr) = 0 /\ match[1].amountStr # <<"0",".","0","0">>
    THEN TryPatterns(tokens, k + 1, clock)
  ELSE <<LineTransaction(match[1], clock)>>

TryPatterns(tokens, k, clock) ==
  IF k > 4 THEN <<>> ELSE TryMatch(PatternMatch(k, tokens), tokens, k, clock)

\* parseTransactionLine(line): RawTransaction | null
ParseTransactionLine(line, clock) ==
  TryPatterns(Split(Trim(CollapseSpaces(line, 1)), " "), 1, clock)

\* the fields of a line between runs of two or more spaces: line.split(/\s{2,}/)
\* without the empty ones
RECURSIVE WideFields(_, _, _)
WideFields(s, i, field) ==
  IF i > Len(s) THEN (IF field = <<>> THEN <<>> ELSE <<field>>)
  ELSE IF SpaceRun(s, i) >= 2
    THEN (IF field = <<>> THEN <<>> ELSE <<field>>)
           \o WideFields(s, i + SpaceRun(s, i), <<>>)
  ELSE WideFields(s, i + 1, Append(field, s[i]))

\* the filter of the table-like lines
IsTableLine(line) ==
  LET fields == WideFields(line, 1, <<>>)
      lower == ToLowerCase(line)
  IN  /\ Len(fields) >= 3
      /\ \E f \in DOMAIN fields : \E i \in DOMAIN fields[f] : IsDigit(fields[f][i])
      /\ \E f \in DOMAIN fields : \E i \in DOMAIN fields[f] : fields[f][i] \in {".", ","}
      /\ ~Includes(lower, <<"t","o","t","a","l">>)
      /\ ~Includes(lower, <<"b","a","l","a","n","c","e">>)
      /\ ~Includes(lower, <<"d","a","t","e">>)

\* `Line ${i + 1}: Could not parse transaction line: ${line}`
LineError(i, line) == [row |-> i + 1, reason |-> "Could not parse transaction line", literal |-> line]

\* the note pushed when no line starts with a date
NoDateLines ==
  [row |-> 0, reason |-> "No transaction lines found with standard date patterns",
   literal |-> <<>>]

\* text.split('\n').map(line => line.trim()).filter(line => line.length > 0),
\* the text given as its lines
CleanLines(lines) == SelectSeq([i \in 1..Len(lines) |-> Trim(lines[i])], LAMBDA l : l # <<>>)

\* the lines parseTransactionsFromText goes through
TransactionLines(lines) ==
  LET dated == SelectSeq(CleanLines(lines), DatePattern)
  IN  IF dated = <<>> THEN SelectSeq(CleanLines(lines), IsTableLine) ELSE dated

\* what the loop body does with parsed, the result of parseTransactionLine
PushLine(acc, parsed, line, i) ==
  IF parsed # <<>>
    THEN [acc EXCEPT !.transactions = Append(@, parsed[1])]
    ELSE [acc EXCEPT !.errors = Append(@, LineError(i, line))]

\* the body of the loop over transactionLines
ProcessLine(acc, line, i, clock) ==
  PushLine(acc, ParseTransactionLine(line, clock), line, i)

RECURSIVE ProcessLines(_, _, _, _)
ProcessLines(acc, transactionLines, i, clock) ==
  IF i >= Len(transactionLines) THEN acc
  ELSE ProcessLines(ProcessLine(acc, transactionLines[i + 1], i, clock),
                    transactionLines, i + 1, clock)

\* what parseTransactionsFromText has collected when its loop starts
TextStart(lines) ==
  [transactions |-> <<>>,
   errors |-> IF SelectSeq(CleanLines(lines), DatePattern) = <<>> THEN <<NoDateLines>> ELSE <<>>]

\* parseTransactionsFromText after the loop, with its catch
TextFinish(acc, filename, clock) ==
  IF acc.transactions = <<>>
    THEN Throw(Wrap("Failed to parse PDF text: ",
                    Error(<<"No valid transactions found in PDF">>, <<>>)))
    ELSE Return(Summary(acc.transactions, acc.errors, filename, clock))

\* parseTransactionsFromText(text, filename): ParsedFileResult
ParseTransactionsFromText(lines, filename, clock) ==
  TextFinish(ProcessLines(TextStart(lines), TransactionLines(lines), 0, clock),
             filename, clock)

-----------------------------------------------------------------------------
(* parsePDF and parseFile of src/lib/file-parsers.ts, the two routes they    *)
(* and the page call, and the state of FinancePage                           *)

\* the text extractTextFromPDF returns for every file, as its lines
MockStatement ==
  << <<"B","A","N","K"," ","S","T","A","T","E","M","E","N","T">>,
     <<" "," "," "," ","A","c","c","o","u","n","t",":"," ","1","2","3","4","5","6","7","8","9","0">>,
     <<" "," "," "," ","S","t","a","t","e","m","e","n","t"," ","P","e","r","i","o","d",":"," ","0","1","/","0","1","/","2","0","2","4"," ","-"," ","0","1","/","3","1","/","2","0","2","4">>,
     <<" "," "," "," ">>,
     <<" "," "," "," ","D","a","t","e"," "," "," "," "," "," "," "," ","D","e","s","c","r","i","p","t","i","o","n"," "," "," "," "," "," "," "," "," "," "," "," "," "," "," "," "," "," "," "," "," ","A","m","o","u","n","t"," "," "," "," "," "," ","B","a","l","a","n","c","e">>,
     <<" "," "," "," ","0","1","/","0","2","/","2","0","2","4"," "," ","G","R","O","C","E","R","Y"," ","S","T","O","R","E"," ","P","U","R","C","H","A","S","E"," "," "," "," "," "," "," "," "," ","-","4","5",".","6","7"," "," "," "," "," "," ","2",",","9","5","4",".","3","3">>,
     <<" "," "," "," ","0","1","/","0","3","/","2","0","2","4"," "," ","S","A","L","A","R","Y"," ","D","E","P","O","S","I","T"," "," "," "," "," "," "," "," "," "," "," "," "," "," "," "," ","2",",","5","0","0",".","0","0"," "," "," "," "," "," ","5",",","4","5","4",".","3","3">>,
     <<" "," "," "," ","0","1","/","0","5","/","2","0","2","4"," "," ","C","O","F","F","E","E"," ","S","H","O","P"," "," "," "," "," "," "," "," "," "," "," "," "," "," "," "," "," "," "," "," ","-","4",".","5","0"," "," "," "," "," "," ","5",",","4","4","9",".","8","3">>,
     <<" "," "," "," ","0","1","/","0","7","/","2","0","2","4"," "," ","G","A","S"," ","S","T","A","T","I","O","N"," "," "," "," "," "," "," "," "," "," "," "," "," "," "," "," "," "," "," ","-","3","5",".","0","0"," "," "," "," "," "," ","5",",","4","1","4",".","8","3">>,
     <<" "," "," "," ","0","1","/","1","0","/","2","0","2","4"," "," ","R","E","S","T","A","U","R","A","N","T"," ","D","I","N","N","E","R"," "," "," "," "," "," "," "," "," "," "," "," "," ","-","6","7",".","8","9"," "," "," "," "," "," ","5",",","3","4","6",".","9","4">>,
     <<" "," "," "," ","0","1","/","1","2","/","2","0","2","4"," "," ","A","T","M"," ","W","I","T","H","D","R","A","W","A","L"," "," "," "," "," "," "," "," "," "," "," "," "," "," "," "," ","-","1","0","0",".","0","0"," "," "," "," "," "," ","5",",","2","4","6",".","9","4">>,
     <<" "," "," "," ","0","1","/","1","5","/","2","0","2","4"," "," ","E","L","E","C","T","R","I","C"," ","B","I","L","L"," "," "," "," "," "," "," "," "," "," "," "," "," "," "," "," "," ","-","8","9",".","4","5"," "," "," "," "," "," ","5",",","1","5","7",".","4","9">>,
     <<" "," "," "," ","0","1","/","1","8","/","2","0","2","4"," "," ","O","N","L","I","N","E"," ","S","H","O","P","P","I","N","G"," "," "," "," "," "," "," "," "," "," "," "," "," "," "," ","-","1","2","3",".","4","5"," "," "," "," "," "," ","5",",","0","3","4",".","0","4">>,
     <<" "," "," "," ","0","1","/","2","0","/","2","0","2","4"," "," ","F","R","E","E","L","A","N","C","E"," ","P","A","Y","M","E","N","T"," "," "," "," "," "," "," "," "," "," "," "," "," ","8","0","0",".","0","0"," "," "," "," "," "," ","5",",","8","3","4",".","0","4">>,
     <<" "," "," "," ","0","1","/","2","5","/","2","0","2","4"," "," ","R","E","N","T"," ","P","A","Y","M","E","N","T"," "," "," "," "," "," "," "," "," "," "," "," "," "," "," "," ","-","1",",","2","0","0",".","0","0"," "," "," "," "," "," ","4",",","6","3","4",".","0","4">>,
     <<" "," "," "," ","0","1","/","2","8","/","2","0","2","4"," "," ","I","N","S","U","R","A","N","C","E"," ","P","R","E","M","I","U","M"," "," "," "," "," "," "," "," "," "," "," "," ","-","1","5","6",".","7","8"," "," "," "," "," "," ","4",",","4","7","7",".","2","6">> >>

\* extractTextFromPDF(file): the placeholder ignores the file
ExtractTextFromPDF(file) == MockStatement

\* an HTTP response: ok, and the JSON body (the error of an error body)
Response(ok, body) == [ok |-> ok, body |-> body]

\* the response of POST /api/parse-pdf once parseTransactionsFromText is done
ParsedResponse(result) ==
  IF result.threw THEN Response(FALSE, result.value) ELSE Response(TRUE, result.value)

\* POST /api/parse-pdf; the files are below the size limit
PostParsePdf(file, clock) ==
  IF file.type # "application/pdf"
    THEN Response(FALSE, Error(<<"File must be a PDF">>, <<>>))
    ELSE ParsedResponse(ParseTransactionsFromText(ExtractTextFromPDF(file), file.name, clock))

\* parsePDF once fetch has resolved
FromResponse(response) ==
  IF ~response.ok
    THEN Throw(Wrap("Failed to parse PDF file: ", response.body))
    ELSE Return(response.body)

\* parsePDF(file): Promise<ParsedFileResult>
ParsePDF(file, serverClock) ==
  IF file.read = "unreachable"
    THEN Throw(Wrap("Failed to parse PDF file: ", Error(<<"fetch failed">>, <<>>)))
    ELSE FromResponse(PostParsePdf(file, serverClock))

\* file.name.split('.').pop()?.toLowerCase()
FileExtension(name) == ToLowerCase(Split(name, ".")[Len(Split(name, "."))])

\* new Error(`Unsupported file type: ${fileExtension || mimeType}. ...`)
UnsupportedError(fileExtension, mimeType) ==
  Error(<<"Unsupported file type: ", ". Please upload CSV or PDF files.">>,
        <<IF fileExtension # <<>> THEN fileExtension ELSE <<mimeType>> >>)

\* Ingestor changed so that a file of another type is tried as CSV
IngestorWithFallback(file) ==
  IF FileExtension(file.name) = <<"p","d","f">> \/ file.type = "application/pdf"
    THEN "parsePDF"
    ELSE "parseCSV"

\* the ingestor parseFile hands the file to, "none" when it hands it to neither
Ingestor(file) ==
  IF FileExtension(file.name) = <<"c","s","v">> \/ file.type = "text/csv"
    THEN "parseCSV"
  ELSE IF FileExtension(file.name) = <<"p","d","f">> \/ file.type = "application/pdf"
    THEN "parsePDF"
  ELSE "none"

\* parseFile(file): Promise<ParsedFileResult>
ParseFile(file, clock, serverClock) ==
  IF Ingestor(file) = "parseCSV" THEN ParseCSV(file, clock)
  ELSE IF Ingestor(file) = "parsePDF" THEN ParsePDF(file, serverClock)
  ELSE Throw(UnsupportedError(FileExtension(file.name), file.type))

\* the names of the seeded categories table
CategoryNames ==
  {"Food & Dining", "Transport", "Entertainment", "Shopping", "Bills & Utilities",
   "Healthcare", "Education", "Travel", "Personal Care", "Home & Garden",
   "Insurance", "Taxes", "Gifts & Donations", "Business", "Other Expenses",
   "Salary", "Freelance", "Investment", "Business Income", "Other Income"}

Null == "null"

\* TransactionData changed so that the default is 'Other Expenses' whatever the
\* sign of the amount
TransactionDataOneDefault(transaction, fileSource) ==
  [date |-> transaction.date,
   amount |-> transaction.amount,
   description |-> transaction.description,
   category_id |-> IF transaction.category \in CategoryNames THEN transaction.category
                   ELSE "Other Expenses",
   subcategory |-> IF transaction.subcategory = Undefined THEN Null
                   ELSE transaction.subcategory,
   file_source |-> fileSource]

\* the row POST /api/transactions prepares for one transaction; a category is
\* identified by its name
TransactionData(transaction, fileSource) ==
  LET fallbackCategory == IF transaction.amount >= 0 THEN "Other Income" ELSE "Other Expenses"
  IN  [date |-> transaction.date,
       amount |-> transaction.amount,
       description |-> transaction.description,
       category_id |-> IF transaction.category \in CategoryNames THEN transaction.category
                       ELSE IF fallbackCategory \in CategoryNames THEN fallbackCategory
                       ELSE Null,
       subcategory |-> IF transaction.subcategory = Undefined THEN Null
                       ELSE transaction.subcategory,
       file_source |-> fileSource]

\* POST /api/transactions with the table holding rows. outcome is what the
\* database does: "saved", "unauthenticated" (no user), "failed" (the categories
\* query or the insert fails)
PostTransactions(transactions, fileSource, outcome, rows) ==
  IF outcome = "unauthenticated"
    THEN [response |-> Response(FALSE, Error(<<"User not authenticated">>, <<>>)), rows |-> rows]
  ELSE IF outcome = "failed"
    THEN [response |-> Response(FALSE, Error(<<"Failed to save transactions: ">>, <<>>)),
          rows |-> rows]
  ELSE [response |-> Response(TRUE, [i \in 1..Len(transactions) |->
                                       TransactionData(transactions[i], fileSource)]),
        rows |-> rows \o [i \in 1..Len(transactions) |->
                             TransactionData(transactions[i], fileSource)]]

\* the state FinancePage keeps: error is <<>> for null, uploadStats likewise
PageState(isProcessing, isLoading, error, uploadStats) ==
  [isProcessing |-> isProcessing, isLoading |-> isLoading,
   error |-> error, uploadStats |-> uploadStats]

\* the useState defaults
InitialPage == PageState(FALSE, TRUE, <<>>, <<>>)

\* the error state: the message, and the name of the file it is about (<<>> when
\* it is about no file)
PageError(filename, error) == <<[file |-> filename, error |-> error]>>

\* loadDashboardData up to its first fetch
StartLoad(p) == [p EXCEPT !.isLoading = TRUE, !.error = <<>>]

\* loadDashboardData from its first fetch on; loaded is FALSE when one of the
\* three fetches fails
FinishLoad(p, loaded) ==
  [p EXCEPT !.isLoading = FALSE,
            !.error = IF loaded THEN @
                      ELSE PageError(<<>>, Error(<<"Failed to fetch">>, <<>>))]

-----------------------------------------------------------------------------
(* handleFilesUpload of src/app/finance/page.tsx, cut at its awaits *)

\* the locals of handleFilesUpload: index is the number of files the loop is
\* done with, parseResult and categorizedTransactions are <<>> until assigned,
\* console holds one entry per file the loop is done with, calls holds the
\* calls awaited so far, in the order made
NewUpload ==
  [index |-> 0,
   allTransactions |-> <<>>,
   totalAmount |-> 0,
   dateRange |-> [start |-> <<>>, end |-> <<>>],
   categories |-> <<>>,
   parseResult |-> <<>>,
   categorizedTransactions |-> <<>>,
   console |-> <<>>,
   calls |-> <<>>]

\* the console line that ends a turn of the loop over the files
ConsoleLine(l, processed) == [file |-> l.index + 1, processed |-> processed]

\* categories[transaction.category] = (categories[transaction.category] || 0) + 1
\* for each transaction; categories is a function from the names counted so far
RECURSIVE CountCategories(_, _)
CountCategories(categories, transactions) ==
  IF transactions = <<>> THEN categories
  ELSE LET category == transactions[1].category
       IN  CountCategories(
             IF category \in DOMAIN categories
               THEN [categories EXCEPT ![category] = @ + 1]
               ELSE [c \in DOMAIN categories \cup {category} |->
                       IF c = category THEN 1 ELSE categories[c]],
             Tail(transactions))

\* UpdateStats changed so that the date range is that of the latest file
UpdateStatsLatestRange(l, parseResult, categorizedTransactions) ==
  [l EXCEPT
     !.allTransactions = @ \o categorizedTransactions,
     !.totalAmount = @ + parseResult.totalAmount,
     !.dateRange = parseResult.dateRange,
     !.categories = CountCategories(@, categorizedTransactions)]

\* UpdateStats changed so that the transactions of a file go in front
UpdateStatsInFront(l, parseResult, categorizedTransactions) ==
  [l EXCEPT
     !.allTransactions = categorizedTransactions \o @,
     !.totalAmount = @ + parseResult.totalAmount,
     !.dateRange =
        [start |-> IF @.start = <<>> \/ StrLess(parseResult.dateRange.start, @.start, DateChars)
                     THEN parseResult.dateRange.start ELSE @.start,
         end |-> IF @.end = <<>> \/ StrLess(@.end, parseResult.dateRange.end, DateChars)
                   THEN parseResult.dateRange.end ELSE @.end],
     !.categories = CountCategories(@, categorizedTransactions)]

\* the statements after the save that update the batch statistics
UpdateStats(l, parseResult, categorizedTransactions) ==
  [l EXCEPT
     !.allTransactions = @ \o categorizedTransactions,
     !.totalAmount = @ + parseResult.totalAmount,
     !.dateRange =
        [start |-> IF @.start = <<>> \/ StrLess(parseResult.dateRange.start, @.start, DateChars)
                     THEN parseResult.dateRange.start ELSE @.start,
         end |-> IF @.end = <<>> \/ StrLess(@.end, parseResult.dateRange.end, DateChars)
                   THEN parseResult.dateRange.end ELSE @.end],
     !.categories = CountCategories(@, categorizedTransactions)]

\* the locals once a call is made
Called(l, call) == [l EXCEPT !.calls = Append(@, call)]

\* await parseFile(file), with the ingestor parseFile hands the file to
ParseCall(l, file) == [op |-> "parseFile", file |-> l.index + 1, ingestor |-> Ingestor(file)]

\* CategorizeCall changed so that the descriptions of the files before go along
CategorizeCallMerged(l, transactions) ==
  [op |-> "categorize", file |-> l.index + 1,
   descriptions |-> [i \in 1..Len(l.allTransactions) |-> l.allTransactions[i].description]
                      \o [i \in 1..Len(transactions) |-> transactions[i].description]]

\* await categorizeTransactions(parseResult.transactions): the descriptions
\* that go into the one remote call it makes
CategorizeCall(l, transactions) ==
  [op |-> "categorize", file |-> l.index + 1,
   descriptions |-> [i \in 1..Len(transactions) |-> transactions[i].description]]

\* await fetch('/api/transactions', ...) with the transactions of the file
SaveCall(l, transactions) ==
  [op |-> "save", file |-> l.index + 1, count |-> Len(transactions)]

\* a turn of the loop ends
NextFile(l, processed) ==
  [l EXCEPT !.index = @ + 1,
            !.parseResult = <<>>,
            !.categorizedTransactions = <<>>,
            !.console = Append(@, ConsoleLine(l, processed))]

\* a catch that leaves the loop over the files
AbortOnFileError(l, files) == [NextFile(l, FALSE) EXCEPT !.index = Len(files)]

\* the locals after catch (fileError): the loop goes on with the next file
AfterFileError(l, files) == NextFile(l, FALSE)

\* setError(`Error processing ${file.name}: ${fileError.message}`)
FileCatch(p, file, fileError) == [p EXCEPT !.error = PageError(file.name, fileError)]

\* where the loop over the files goes on
LoopPc(l, files) == IF l.index < Len(files) THEN "parse" ELSE "finish"

\* the UploadStats handed to setUploadStats
UploadStats(l) ==
  [totalTransactions |-> Len(l.allTransactions),
   totalAmount |-> l.totalAmount,
   dateRange |-> l.dateRange,
   categories |-> l.categories]

-----------------------------------------------------------------------------
(* Bounds of the model *)

MaxTx == 2          \* transactions in one call of categorizeTransactions

\* all sequences over S of length at most n
SeqsUpTo(S, n) == UNION {[1..k -> S] : k \in 0..n}

\* those of them without a repeated element
DistinctSeqsUpTo(S, n) ==
  {s \in SeqsUpTo(S, n) : \A i, j \in DOMAIN s : i # j => s[i] # s[j]}

-----------------------------------------------------------------------------
(* The categorization engine, called on its own *)

DescStarbucks == <<"S","T","A","R","B","U","C","K","S"," ","C","O","F","F","E","E"," ","#","1","2","3","4">>
DescTargetStore == <<"T","A","R","G","E","T"," ","S","T","O","R","E">>
DescGasCompany == <<"G","A","S"," ","C","O","M","P","A","N","Y">>
DescUnknown == <<"X","Y","Z">>
DescRent == <<"R","e","n","t">>

Descriptions == {DescStarbucks, DescTargetStore, DescGasCompany, DescUnknown, DescRent}

\* a RawTransaction with the given description, as an ingestor emits it
RawOf(description) ==
  [date |-> <<"2","0","2","4","-","0","1","-","0","5">>,
   description |-> description,
   amount |-> 0 - 4500,
   balance |-> <<>>,
   merchant |-> <<>>,
   type |-> Undefined]

\* the labels the remote classifier may put in its list
Labels == {"", "Shopping", "Travel"}

NoResponse == AIResponse("none", FALSE, "none", "undefined", <<>>)

\* every answer the remote classifier can give to a call for at most MaxTx descriptions
AIResponses ==
  {AIResponse("reject", FALSE, "none", "undefined", <<>>),
   AIResponse("http", FALSE, "object", "undefined", <<>>),
   AIResponse("http", TRUE, "malformed", "undefined", <<>>),
   AIResponse("http", TRUE, "null", "undefined", <<>>),
   AIResponse("http", TRUE, "object", "undefined", <<>>)}
  \cup {AIResponse("http", TRUE, "object", "array", items) :
          items \in SeqsUpTo(Labels, MaxTx + 1)}
  \cup {AIResponse("http", TRUE, "object", "string", items) :
          items \in SeqsUpTo({"a"}, MaxTx + 1)}

NoLocals == [index |-> 0, cols |-> <<>>, lines |-> <<>>, transactions |-> <<>>, errors |-> <<>>]

\* the page as constructed, nothing called yet
Init ==
  /\ page = InitialPage
  /\ db = <<>>
  /\ fn = "none"
  /\ arg = <<>>
  /\ env = NoResponse
  /\ ret = Return(<<>>)
  /\ loc = NoLocals
  /\ pc = "idle"

\* categorizeTransactions is called and suspends on the remote call
CallCategorizeTransactions ==
  /\ pc = "idle"
  /\ \E descriptions \in SeqsUpTo(Descriptions, MaxTx) :
       arg' = [i \in 1..Len(descriptions) |-> RawOf(descriptions[i])]
  /\ fn' = "categorizeTransactions"
  /\ pc' = "awaitAI"
  /\ UNCHANGED <<page, db, env, ret, loc>>

\* the remote call settles and categorizeTransactions runs to its return
AIResponds ==
  /\ pc = "awaitAI"
  /\ \E resp \in AIResponses :
       /\ env' = resp
       /\ ret' = CategorizeTransactions(arg, resp)
       /\ arg' = InputAfterCategorize(arg, resp)
  /\ pc' = "returned"
  /\ UNCHANGED <<page, db, fn, loc>>

\* categorizeWithRules is called on one description
CallCategorizeWithRules ==
  /\ pc = "idle"
  /\ \E description \in Descriptions :
       /\ arg' = description
       /\ ret' = Return(CategorizeWithRules(description))
  /\ fn' = "categorizeWithRules"
  /\ pc' = "returned"
  /\ UNCHANGED <<page, db, env, loc>>

DescForecourt == <<"G","a","s"," ","s","t","a","t","i","o","n"," ","c","o","f","f","e","e"," ","s","h","o","p"," ","s","t","o","r","e"," ","r","e","n","t">>
DescFoodCourt == <<"P","i","z","z","a"," ","b","u","r","g","e","r"," ","c","a","f","e"," ","a","m","a","z","o","n"," ","e","b","a","y"," ","s","t","o","r","e"," ","r","e","t","a","i","l">>

\* the descriptions suggestions are asked for
SuggestionDescriptions == Descriptions \cup {DescForecourt, DescFoodCourt}

\* getCategorySuggestions is called on one description
CallGetCategorySuggestions ==
  /\ pc = "idle"
  /\ \E description \in SuggestionDescriptions :
       /\ arg' = description
       /\ ret' = Return(GetCategorySuggestions(description))
  /\ fn' = "getCategorySuggestions"
  /\ pc' = "returned"
  /\ UNCHANGED <<page, db, env, loc>>

NextCategorize ==
  \/ CallCategorizeTransactions
  \/ AIResponds
  \/ CallCategorizeWithRules
  \/ CallGetCategorySuggestions

SpecCategorize == Init /\ [][NextCategorize]_vars

-----------------------------------------------------------------------------
(* The CSV ingestor, called on its own and stepped through its records *)

MaxRows == 3        \* data rows of a CSV file

\* header rows: the plain one, synonyms in another order, one whose headers are
\* neither date, description nor amount, one with '#', one with 'Transaction',
\* one without an amount column, and one with balance and type columns
HeaderRows ==
  { << <<"D","a","t","e">>, <<"D","e","s","c","r","i","p","t","i","o","n">>, <<"A","m","o","u","n","t">> >>,
    << <<"D","e","b","i","t">>, <<"P","o","s","t","i","n","g"," ","D","a","t","e">>, <<"M","e","m","o">> >>,
    << <<"N","o","t","e","s">>, <<"C","o","d","e">>, <<"R","e","f">> >>,
    << <<"#">>, <<"N","o","t","e","s">>, <<"C","o","d","e">> >>,
    << <<"T","r","a","n","s","a","c","t","i","o","n">>, <<"N","o","t","e","s">>, <<"C","o","d","e">> >>,
    << <<"D","a","t","e">>, <<"D","e","s","c","r","i","p","t","i","o","n">>, <<"N","o","t","e","s">> >>,
    << <<"D","a","t","e">>, <<"D","e","s","c","r","i","p","t","i","o","n">>, <<"A","m","o","u","n","t">>, <<"B","a","l","a","n","c","e">>, <<"T","y","p","e">> >> }

PlainHeaders ==
  << <<"D","a","t","e">>, <<"D","e","s","c","r","i","p","t","i","o","n">>, <<"A","m","o","u","n","t">> >>

\* data rows, written date, description, amount, balance, type
DataRows ==
  { << <<"2","0","2","4","-","0","1","-","0","5">>, <<"P","O","S"," ","C","o","f","f","e","e"," ","S","h","o","p">>, <<"-","4",".","5","0">>, <<"1","0","0",".","0","0">>, <<"D","R">> >>,
    << <<"0","1","/","1","3","/","2","0","2","4">>, <<"S","a","l","a","r","y">>, <<"$","2",",","5","0","0",".","0","0">>, <<>>, <<"c","r","e","d","i","t">> >>,
    << <<"2","0","2","4","-","0","1","-","0","7">>, <<"R","e","f","u","n","d">>, <<"0">>, <<>>, <<>> >>,
    << <<"2","0","2","4","-","0","1","-","0","8">>, <<"G","a","s">>, <<>>, <<"5">>, <<>> >>,
    << <<"2","0","2","4","-","0","1","-","0","9">>, <<>>, <<"(","5",".","0","0",")">>, <<>>, <<>> >>,
    << <<"2","0","2","4","-","0","1","-","1","0">>, <<"T","i","p">>, <<"1","2","a","b","c">>, <<"n","/","a">>, <<>> >>,
    << <<"1","3","/","0","1","/","2","0","2","4">>, <<"F","e","e">>, <<"N","/","A">>, <<>>, <<>> >> }

\* the rows cut to the width of the header row, as csv-parse keys them
RowsFor(headers, rows) == [i \in 1..Len(rows) |-> SubSeq(rows[i], 1, Len(headers))]

CsvName == <<"s","t","a","t","e","m","e","n","t",".","c","s","v">>

\* the header rows that name every column a data row is written with
FullHeaderRows == {headers \in HeaderRows : Len(headers) = 5 \/ headers = PlainHeaders}

\* the files: up to MaxRows different rows under the plain header row, one row
\* less under the header row of five columns, one row at most under the others
CsvFiles ==
  {File(CsvName, "text/csv", "ok", PlainHeaders, RowsFor(PlainHeaders, rows)) :
     rows \in DistinctSeqsUpTo(DataRows, MaxRows)}
  \cup {File(CsvName, "text/csv", "ok", headers, RowsFor(headers, rows)) :
          headers \in FullHeaderRows \ {PlainHeaders},
          rows \in DistinctSeqsUpTo(DataRows, MaxRows - 1)}
  \cup {File(CsvName, "text/csv", "ok", headers, RowsFor(headers, rows)) :
          headers \in HeaderRows \ FullHeaderRows, rows \in SeqsUpTo(DataRows, 1)}
  \cup {File(CsvName, "text/csv", read, PlainHeaders, <<>>) :
          read \in {"fails", "unreadable"}}

\* the browser's clock and time zone
Clocks == {Clock(<<2026, 11, 2>>, TRUE, TRUE)}

\* parseCSV is called: it reads the file and looks up the columns
CallParseCSV ==
  /\ pc = "idle"
  /\ \E file \in CsvFiles, clock \in Clocks :
       LET start == CsvStart(file)
       IN  /\ arg' = file
           /\ env' = clock
           /\ IF start.threw
                THEN /\ ret' = CsvCatch(start)
                     /\ loc' = loc
                     /\ pc' = "returned"
                ELSE /\ ret' = ret
                     /\ loc' = [index |-> 0, cols |-> start.value, lines |-> <<>>,
                                transactions |-> <<>>, errors |-> <<>>]
                     /\ pc' = "records"
  /\ fn' = "parseCSV"
  /\ UNCHANGED <<page, db>>

\* one turn of records.forEach
NextRecord ==
  /\ pc = "records"
  /\ loc.index < Len(arg.rows)
  /\ LET acc == ProcessRecord([transactions |-> loc.transactions, errors |-> loc.errors],
                              arg.rows[loc.index + 1], loc.index, loc.cols, env)
     IN  loc' = [loc EXCEPT !.index = @ + 1,
                            !.transactions = acc.transactions,
                            !.errors = acc.errors]
  /\ UNCHANGED <<page, db, fn, arg, env, ret, pc>>

\* the loop is over: parseCSV returns its result or throws
ReturnParseCSV ==
  /\ pc = "records"
  /\ loc.index = Len(arg.rows)
  /\ ret' = CsvCatch(CsvFinish(arg, [transactions |-> loc.transactions,
                                     errors |-> loc.errors], env))
  /\ pc' = "returned"
  /\ UNCHANGED <<page, db, fn, arg, env, loc>>


-----------------------------------------------------------------------------
(* The statement table ingestor, called on its own and stepped through its   *)
(* lines                                                                     *)

MaxLines == 3       \* lines of an extracted text

TextLines ==
  { <<"0","1","/","0","2","/","2","0","2","4"," "," ","G","R","O","C","E","R","Y"," ","S","T","O","R","E"," "," ","-","4","5",".","6","7"," "," ","2",",","9","5","4",".","3","3">>,
    <<"0","1","/","0","3","/","2","0","2","4"," ","S","A","L","A","R","Y"," ","2",",","5","0","0",".","0","0">>,
    <<"0","1","/","0","5","/","2","0","2","4"," ","-","4",".","5","0"," ","C","O","F","F","E","E"," ","S","H","O","P"," ","0">>,
    <<"2","0","2","4","-","0","1","-","0","7"," ","G","A","S"," ","S","T","A","T","I","O","N"," ","-","3","5",".","0","0">>,
    <<"0","1","/","0","9","/","2","0","2","4"," ","V","O","I","D"," ","0",".","0","0">>,
    <<"0","1","/","1","0","/","2","0","2","4"," ","R","E","F","U","N","D"," ","0">>,
    <<"0","1","/","1","1","/","2","0","2","4"," ","B","A","D"," ","L","I","N","E">>,
    <<"C","o","f","f","e","e"," "," ","4",".","5","0"," "," ","x">> }

PdfName == <<"s","t","a","t","e","m","e","n","t",".","p","d","f">>

\* the clock and time zone of the server
ServerClocks == {Clock(<<2026, 11, 2>>, FALSE, TRUE)}

\* parseTransactionsFromText is called: it picks the lines to go through
CallParseText ==
  /\ pc = "idle"
  /\ \E lines \in DistinctSeqsUpTo(TextLines, MaxLines), clock \in ServerClocks :
       /\ arg' = File(PdfName, "application/pdf", "ok", <<>>, lines)
       /\ env' = clock
       /\ loc' = [index |-> 0, cols |-> <<>>, lines |-> TransactionLines(lines),
                  transactions |-> TextStart(lines).transactions,
                  errors |-> TextStart(lines).errors]
  /\ fn' = "parseTransactionsFromText"
  /\ pc' = "lines"
  /\ UNCHANGED <<page, db, ret>>

\* one turn of the loop over transactionLines
NextLine ==
  /\ pc = "lines"
  /\ loc.index < Len(loc.lines)
  /\ LET acc == ProcessLine([transactions |-> loc.transactions, errors |-> loc.errors],
                            loc.lines[loc.index + 1], loc.index, env)
     IN  loc' = [loc EXCEPT !.index = @ + 1,
                            !.transactions = acc.transactions,
                            !.errors = acc.errors]
  /\ UNCHANGED <<page, db, fn, arg, env, ret, pc>>

\* the loop is over: parseTransactionsFromText returns its result or throws
ReturnParseText ==
  /\ pc = "lines"
  /\ loc.index = Len(loc.lines)
  /\ ret' = TextFinish([transactions |-> loc.transactions, errors |-> loc.errors],
                       arg.name, env)
  /\ pc' = "returned"
  /\ UNCHANGED <<page, db, fn, arg, env, loc>>

NextIngest ==
  \/ CallParseCSV
  \/ NextRecord
  \/ ReturnParseCSV
  \/ CallParseText
  \/ NextLine
  \/ ReturnParseText

SpecIngest == Init /\ [][NextIngest]_vars

-----------------------------------------------------------------------------
(* The normalizers of src/lib/file-parsers.ts, each called on its own *)

\* undecorated amounts
AmountBases ==
  { <<"5",".","0","0">>,
    <<"4",".","5","0">>,
    <<"0">>,
    <<"1","2">>,
    <<"1",",","2","3","4",".","5","6">>,
    <<"1","2","3","4",".","5","6">>,
    <<".","5">>,
    <<"2",",","5","0","0",".","0","0">> }

AmountSigns == {<<>>, <<"-">>, <<"+">>}

\* no currency symbol, the dollar sign, the euro sign
AmountSymbols == {<<>>, <<"$">>, <<"EUR">>}

\* the amount written with its sign, a currency symbol and, when parens,
\* enclosing parentheses; symbolFirst puts the symbol in front of the rest
Decorated(base, sign, symbol, parens, symbolFirst) ==
  IF parens
    THEN IF symbolFirst THEN symbol \o <<"(">> \o sign \o base \o <<")">>
         ELSE <<"(">> \o symbol \o sign \o base \o <<")">>
    ELSE IF symbolFirst THEN symbol \o sign \o base
         ELSE sign \o symbol \o base

\* the values parseAmount is called with: decorated decimals, empty and blank
\* texts, and texts that are no decimal
AmountLiterals ==
  {Decorated(base, sign, symbol, parens, symbolFirst) :
     base \in AmountBases, sign \in AmountSigns, symbol \in AmountSymbols,
     parens \in BOOLEAN, symbolFirst \in BOOLEAN}
  \cup {<<>>, <<" ">>, <<" ","\t"," ">>}
  \cup { <<"a","b","c">>,
    <<"1","2","a","b","c">>,
    <<"N","/","A">>,
    <<"(","5",".","0","0">> }

\* the values parseDate is called with
DateLiterals ==
  { <<>>, <<" ","2","0","2","4","-","0","1","-","0","5"," ">>,
    <<"1","3","/","0","1","/","2","0","2","4">>,
    <<"0","1","/","1","3","/","2","0","2","4">>,
    <<"0","1","/","0","2","/","2","0","2","4">>,
    <<"2","0","2","4","-","0","1","-","0","5">>,
    <<"2","0","2","4","-","1","3","-","0","5">>,
    <<"3","1","/","0","2","/","2","0","2","4">>,
    <<"0","2","/","3","1","/","2","0","2","4">>,
    <<"2","0","2","4","-","0","2","-","3","1">>,
    <<"1","2","-","2","5","-","2","0","2","4">>,
    <<"2","5","-","1","2","-","2","0","2","4">>,
    <<"1","/","2","/","2","4">>,
    <<"y","e","s","t","e","r","d","a","y">>,
    <<"1","3","/","1","3","/","2","0","2","4">>,
    <<"2","0","2","4","-","1","-","5">>,
    <<"0","2","/","2","9","/","2","0","2","3">>,
    <<"1","2","/","3","1","/","2","0","2","4">> }

\* the clocks and time zones of the browser
NormalizerClocks ==
  {Clock(today, east, lenient) :
     today \in {<<2026, 11, 2>>, <<2024, 3, 1>>}, east \in BOOLEAN, lenient \in BOOLEAN}

\* parseAmount is called and returns
CallParseAmount ==
  /\ pc = "idle"
  /\ \E value \in AmountLiterals :
       /\ arg' = value
       /\ ret' = Return(ParseAmount(value))
  /\ fn' = "parseAmount"
  /\ pc' = "returned"
  /\ UNCHANGED <<page, db, env, loc>>

\* parseDate is called and returns
CallParseDate ==
  /\ pc = "idle"
  /\ \E dateStr \in DateLiterals, clock \in NormalizerClocks :
       /\ arg' = dateStr
       /\ env' = clock
       /\ ret' = Return(ParseDate(dateStr, clock))
  /\ fn' = "parseDate"
  /\ pc' = "returned"
  /\ UNCHANGED <<page, db, loc>>

\* parseDate of the parse-pdf route is called and returns
CallParseDateRoute ==
  /\ pc = "idle"
  /\ \E dateStr \in DateLiterals, clock \in NormalizerClocks :
       /\ arg' = dateStr
       /\ env' = clock
       /\ ret' = Return(ParseDateRoute(dateStr, clock))
  /\ fn' = "parseDateRoute"
  /\ pc' = "returned"
  /\ UNCHANGED <<page, db, loc>>

NextNormalize ==
  \/ CallParseAmount
  \/ CallParseDate
  \/ CallParseDateRoute

SpecNormalize == Init /\ [][NextNormalize]_vars

-----------------------------------------------------------------------------
(* The page: it mounts, and the user uploads one batch of files *)

MaxFiles == 3       \* files of an upload

\* a CSV file with a row that has no amount, a text file that holds CSV text, a
\* PDF file, and a CSV file without the mandatory columns
UploadFiles ==
  { File(<<"j","a","n","u","a","r","y",".","c","s","v">>, "text/csv", "ok", PlainHeaders,
         << << <<"2","0","2","4","-","0","1","-","0","5">>, <<"P","O","S"," ","C","o","f","f","e","e"," ","S","h","o","p">>, <<"-","4",".","5","0">> >>,
            << <<"2","0","2","4","-","0","1","-","0","8">>, <<"G","a","s">>, <<>> >>,
            << <<"0","1","/","1","3","/","2","0","2","4">>, <<"S","a","l","a","r","y">>, <<"$","2",",","5","0","0",".","0","0">> >> >>),
    File(<<"n","o","t","e","s",".","t","x","t">>, "text/plain", "ok", PlainHeaders,
         << << <<"2","0","2","4","-","0","1","-","0","6">>, <<"L","u","n","c","h">>, <<"-","9",".","0","0">> >> >>),
    File(<<"s","t","a","t","e","m","e","n","t",".","p","d","f">>, "application/pdf", "ok", <<>>, <<>>),
    File(<<"b","r","o","k","e","n",".","c","s","v">>, "text/csv", "ok",
         << <<"N","o","t","e","s">>, <<"C","o","d","e">>, <<"R","e","f">> >>,
         << << <<"2","0","2","4","-","0","1","-","0","5">>, <<"P","O","S"," ","C","o","f","f","e","e"," ","S","h","o","p">>, <<"-","4",".","5","0">> >> >>) }

\* what the remote classifier may answer for n descriptions: the call fails, it
\* labels every one 'Shopping', or it labels every one 'Misc', a name the
\* categories table does not hold
UploadResponses(n) ==
  {AIResponse("reject", FALSE, "none", "undefined", <<>>),
   AIResponse("http", TRUE, "object", "array", [i \in 1..n |-> "Shopping"]),
   AIResponse("http", TRUE, "object", "array", [i \in 1..n |-> "Misc"])}

SaveOutcomes == {"saved", "failed"}

\* the effect of mounting: loadDashboardData
Mount ==
  /\ pc = "idle" /\ fn = "none"
  /\ page.isLoading
  /\ \E loaded \in BOOLEAN : page' = FinishLoad(StartLoad(page), loaded)
  /\ UNCHANGED <<db, fn, arg, env, ret, loc, pc>>

\* the user drops a batch of files: handleFilesUpload up to the loop
HandleFilesUpload ==
  /\ pc = "idle" /\ fn = "none"
  /\ ~page.isLoading
  /\ \E files \in DistinctSeqsUpTo(UploadFiles, MaxFiles) :
       /\ arg' = files
       /\ pc' = LoopPc(NewUpload, files)
  /\ fn' = "handleFilesUpload"
  /\ page' = [page EXCEPT !.isProcessing = TRUE, !.error = <<>>]
  /\ loc' = NewUpload
  /\ UNCHANGED <<db, env, ret>>

\* the turn of the loop ends in catch (fileError)
FileFails(l, file, fileError) ==
  /\ page' = FileCatch(page, file, fileError)
  /\ loc' = AfterFileError(l, arg)
  /\ pc' = LoopPc(AfterFileError(l, arg), arg)

\* parseFile has settled
AfterParse(l, file, parsed) ==
  IF parsed.threw
    THEN FileFails(l, file, parsed.value)
    ELSE /\ page' = page
         /\ loc' = [l EXCEPT !.parseResult = <<parsed.value>>]
         /\ pc' = "categorize"

\* await parseFile(file)
ParseStep ==
  /\ fn = "handleFilesUpload" /\ pc = "parse"
  /\ \E clock \in Clocks, serverClock \in ServerClocks :
       AfterParse(Called(loc, ParseCall(loc, arg[loc.index + 1])), arg[loc.index + 1],
                  ParseFile(arg[loc.index + 1], clock, serverClock))
  /\ UNCHANGED <<db, fn, arg, env, ret>>

\* categorizeTransactions has settled
AfterCategorize(l, file, categorized) ==
  IF categorized.threw
    THEN FileFails(l, file, categorized.value)
    ELSE /\ page' = page
         /\ loc' = [l EXCEPT !.categorizedTransactions = categorized.value]
         /\ pc' = "save"

\* await categorizeTransactions(parseResult.transactions)
CategorizeStep ==
  /\ fn = "handleFilesUpload" /\ pc = "categorize"
  /\ \E resp \in UploadResponses(Len(loc.parseResult[1].transactions)) :
       /\ env' = resp
       /\ AfterCategorize(Called(loc, CategorizeCall(loc, loc.parseResult[1].transactions)),
                          arg[loc.index + 1],
                          CategorizeTransactions(loc.parseResult[1].transactions, resp))
  /\ UNCHANGED <<db, fn, arg, ret>>

\* the turn of the loop ends after the statistics are updated
FileProcessed(done) ==
  /\ page' = page
  /\ loc' = done
  /\ pc' = LoopPc(done, arg)

\* AfterSave changed so that the statistics are updated before the response
\* of the save is looked at
AfterSaveCounted(l, file, post) ==
  /\ db' = post.rows
  /\ IF ~post.response.ok
       THEN /\ page' = FileCatch(page, file, post.response.body)
            /\ loc' = NextFile(UpdateStats(l, l.parseResult[1], l.categorizedTransactions), FALSE)
            /\ pc' = LoopPc(NextFile(l, FALSE), arg)
       ELSE FileProcessed(NextFile(UpdateStats(l, l.parseResult[1],
                                               l.categorizedTransactions), TRUE))

\* the fetch of /api/transactions has settled
AfterSave(l, file, post) ==
  /\ db' = post.rows
  /\ IF ~post.response.ok
       THEN FileFails(l, file, post.response.body)
       ELSE FileProcessed(NextFile(UpdateStats(l, l.parseResult[1],
                                               l.categorizedTransactions), TRUE))

\* await fetch('/api/transactions', ...) and the rest of the turn
SaveStep ==
  /\ fn = "handleFilesUpload" /\ pc = "save"
  /\ \E outcome \in SaveOutcomes :
       AfterSave(Called(loc, SaveCall(loc, loc.categorizedTransactions)),
                 arg[loc.index + 1],
                 PostTransactions(loc.categorizedTransactions, arg[loc.index + 1].name,
                                  outcome, db))
  /\ UNCHANGED <<fn, arg, env, ret>>

\* after the loop: the statistics and the start of loadDashboardData when a
\* transaction was saved, the end of the handler otherwise
Finish ==
  /\ fn = "handleFilesUpload" /\ pc = "finish"
  /\ IF loc.allTransactions # <<>>
       THEN /\ page' = StartLoad([page EXCEPT !.uploadStats = <<UploadStats(loc)>>])
            /\ pc' = "reload"
       ELSE /\ page' = [page EXCEPT !.isProcessing = FALSE]
            /\ pc' = "done"
  /\ UNCHANGED <<db, fn, arg, env, ret, loc>>

\* loadDashboardData settles and the handler ends
Reload ==
  /\ fn = "handleFilesUpload" /\ pc = "reload"
  /\ \E loaded \in BOOLEAN :
       page' = [FinishLoad(page, loaded) EXCEPT !.isProcessing = FALSE]
  /\ pc' = "done"
  /\ UNCHANGED <<db, fn, arg, env, ret, loc>>

Next ==
  \/ Mount
  \/ HandleFilesUpload
  \/ ParseStep
  \/ CategorizeStep
  \/ SaveStep
  \/ Finish
  \/ Reload

Spec == Init /\ [][Next]_vars

-----------------------------------------------------------------------------
(* Properties of handleFilesUpload *)

\* the loop over the files is over
LoopOver == fn = "handleFilesUpload" /\ pc \in {"finish", "reload", "done"}

UploadDone == fn = "handleFilesUpload" /\ pc = "done"

\* parseFile rejects the file as an unsupported type
Unsupported(file) ==
  /\ FileExtension(file.name) \notin {<<"c","s","v">>, <<"p","d","f">>}
  /\ file.type \notin {"text/csv", "application/pdf"}

\* what parseFile gives for each of the files a batch is made of
ParsedFiles ==
  [file \in UploadFiles |->
     ParseFile(file, CHOOSE c \in Clocks : TRUE, CHOOSE c \in ServerClocks : TRUE)]

\* what parseFile gives for the file
Parsed(file) == ParsedFiles[file]

\* description and amount of each transaction of a list
Entries(transactions) ==
  [i \in 1..Len(transactions) |->
     <<transactions[i].description, transactions[i].amount>>]

\* C1: a file that fails never keeps a later file from being parsed,
\* categorized and saved: when the loop is over it has gone through every file
\* of the batch, in order, the accumulated transactions are the rows saved, in
\* the order saved, and for a batch of three files whose second is unsupported
\* and whose first and third were saved they are the transactions of file 1
\* followed by those of file 3.
C1_LaterFilesProcessed ==
  LoopOver =>
    /\ Len(loc.console) = Len(arg)
    /\ \A i \in DOMAIN arg :
         /\ loc.console[i].file = i
         /\ Unsupported(arg[i]) => ~loc.console[i].processed
    /\ Entries(loc.allTransactions) = Entries(db)
    /\ (/\ Len(arg) = 3
        /\ Unsupported(arg[2])
        /\ loc.console[1].processed
        /\ loc.console[3].processed) =>
         Entries(loc.allTransactions)
           = Entries(Parsed(arg[1]).value.transactions)
               \o Entries(Parsed(arg[3]).value.transactions)

\* C1 witness: a CSV file, a text file and a PDF file; the loop is over with
\* the two transactions of the first and the eleven of the third
C1_Witness ==
  /\ UploadDone
  /\ Len(arg) = 3
  /\ arg[1].name = <<"j","a","n","u","a","r","y",".","c","s","v">>
  /\ Unsupported(arg[2])
  /\ arg[3].name = <<"s","t","a","t","e","m","e","n","t",".","p","d","f">>
  /\ loc.console[3].processed
  /\ Len(loc.allTransactions) = 13

\* the files of the batch that failed
FailedFiles == {i \in DOMAIN loc.console : ~loc.console[i].processed}

\* C2 (the claim as stated): when handleFilesUpload has finished a batch the
\* error state holds one error for every file that failed, also when other
\* files were saved and the upload stats are set.
C2_EveryFileErrorSurfaced ==
  UploadDone =>
    /\ Len(page.error) >= Cardinality(FailedFiles)
    /\ \A i \in FailedFiles :
         \E e \in DOMAIN page.error : page.error[e].file = arg[i].name

-----------------------------------------------------------------------------
(* Properties of the categorization engine *)

CatReturned == fn = "categorizeTransactions" /\ pc = "returned"

\* the remote call failed outright: fetch rejected or the status was not a success
RemoteFailed == env.kind = "reject" \/ (env.kind = "http" /\ ~env.ok)

\* C3: categorizeTransactions never rejects; whatever the remote call did, it
\* returns one categorized transaction per input transaction, in input order,
\* each with a non-empty category.
C3_NeverRejects ==
  CatReturned =>
    /\ ~ret.threw
    /\ Len(ret.value) = Len(arg)
    /\ \A i \in DOMAIN arg :
         /\ ret.value[i].description = arg[i].description
         /\ ret.value[i].date = arg[i].date
         /\ ret.value[i].amount = arg[i].amount
         /\ ret.value[i].category \notin {"", Undefined}

\* C3 witness: the remote call failed, or answered a list of the wrong length,
\* and two categorized transactions came back
C3_Witness ==
  /\ CatReturned
  /\ Len(arg) = 2
  /\ RemoteFailed \/ (env.ctype = "array" /\ Len(env.items) = 3)
  /\ Len(ret.value) = 2

\* C4 (the claim as stated): when the remote call throws or answers a
\* non-success status every transaction carries the keyword matcher's result,
\* tagged categorySource 'rules' with the matcher's confidence and subcategory.
C4_FailureGivesRules ==
  (CatReturned /\ RemoteFailed) =>
    \A i \in DOMAIN arg :
      LET result == CategorizeWithRules(arg[i].description)
      IN  /\ ret.value[i].category = result.category
          /\ ret.value[i].subcategory = result.subcategory
          /\ ret.value[i].confidence = result.confidence
          /\ ret.value[i].categorySource = "rules"

\* C5: when the remote call succeeds with exactly n non-empty labels,
\* transaction i gets label i, confidence 0.9 and categorySource 'ai'.
C5_AdoptsLabels ==
  (/\ CatReturned
   /\ env.kind = "http" /\ env.ok /\ env.json = "object" /\ env.ctype = "array"
   /\ Len(env.items) = Len(arg)
   /\ \A i \in DOMAIN env.items : env.items[i] # "") =>
    /\ ~ret.threw
    /\ \A i \in DOMAIN arg :
         /\ ret.value[i].category = env.items[i]
         /\ ret.value[i].confidence = ConfAI
         /\ ret.value[i].categorySource = "ai"

\* C5 witness: two transactions, two different labels adopted
C5_Witness ==
  /\ CatReturned
  /\ env.ctype = "array" /\ env.items = <<"Travel", "Shopping">>
  /\ Len(arg) = 2
  /\ ret.value[1].category = "Travel" /\ ret.value[2].category = "Shopping"

\* the rules that have a keyword occurring in the lower-cased description
MatchingRules(description) ==
  {r \in DOMAIN CATEGORIZATION_RULES :
     \E k \in DOMAIN CATEGORIZATION_RULES[r].keywords :
       Includes(ToLowerCase(description), CATEGORIZATION_RULES[r].keywords[k])}

-----------------------------------------------------------------------------
(* Properties of the ingestors *)

\* parseCSV got its records: csv-parse read the text and found data rows
CsvRead == fn = "parseCSV" /\ arg.read = "ok" /\ arg.rows # <<>>

CsvReturned == fn = "parseCSV" /\ pc = "returned"

TextCalled == fn = "parseTransactionsFromText"

\* the candidate names of a mandatory field in the table chosen for the headers
NamesOf(headers, field) == COLUMN_MAPPINGS[DetectBankFormat(headers)][field]

\* the header names a synonym of the field: its normalized form contains one
\* of the field's candidate names
IsSynonym(header, headers, field) ==
  \E n \in DOMAIN NamesOf(headers, field) :
    Includes(NormalizeColumnName(header), NormalizeColumnName(NamesOf(headers, field)[n]))

MandatoryFields == {"date", "description", "amount"}

\* the index parseCSV resolved for a mandatory field
ResolvedIndex(field) ==
  IF field = "date" THEN loc.cols.dateIndex
  ELSE IF field = "description" THEN loc.cols.descriptionIndex
  ELSE loc.cols.amountIndex

\* C7 (the claim as stated): when no header names a date, a description or an
\* amount synonym, parseCSV throws an error that lists the headers, whatever
\* the data rows hold; and a mandatory field is never resolved to a header that
\* is not a synonym of it.
C7_UnrecognizedHeadersFail ==
  CsvRead =>
    /\ (\E f \in MandatoryFields :
          \A h \in DOMAIN arg.headers : ~IsSynonym(arg.headers[h], arg.headers, f))
         => /\ pc = "returned"
            /\ ret.threw
            /\ ret.value.headers = arg.headers
    /\ pc = "records" =>
         \A f \in MandatoryFields :
           IsSynonym(arg.headers[ResolvedIndex(f) + 1], arg.headers, f)

\* the three mandatory fields of data row i, as parseCSV reads them
FieldsOf(i) ==
  [date |-> ValueAt(arg.rows[i], loc.cols.dateIndex),
   description |-> ValueAt(arg.rows[i], loc.cols.descriptionIndex),
   amount |-> ValueAt(arg.rows[i], loc.cols.amountIndex)]

HasEmptyField(i) ==
  FieldsOf(i).date = <<>> \/ FieldsOf(i).description = <<>> \/ FieldsOf(i).amount = <<>>

\* data row i is complete and its amount is accepted
RowAccepted(i) ==
  /\ ~HasEmptyField(i)
  /\ ParseAmount(FieldsOf(i).amount) # 0
       \/ FieldsOf(i).amount \in {<<"0">>, <<"0",".","0","0">>}

\* the errors collected so far that reference row number n
ErrorsAt(n) == {e \in DOMAIN loc.errors : loc.errors[e].row = n}

\* data row r is the only one with an empty amount, and every other data row
\* is accepted
OnlyEmptyAmount(r) ==
  /\ FieldsOf(r).amount = <<>>
  /\ \A i \in DOMAIN arg.rows : i # r => RowAccepted(i)

\* C8 (the claim as stated): a CSV of n data rows in which only data row r has
\* an empty amount yields n - 1 transactions and one error, which references
\* row r + 1.
C8_EmptyAmountRowSkipped ==
  (CsvReturned /\ CsvRead /\ loc.cols # <<>>) =>
    \A r \in DOMAIN arg.rows :
      OnlyEmptyAmount(r) =>
        /\ ~ret.threw
        /\ Len(ret.value.transactions) = Len(arg.rows) - 1
        /\ Len(ret.value.errors) = 1
        /\ ret.value.errors[1].row = r + 1

\* C8 (amended): every processed data row with an empty date, description or
\* amount has exactly one error, which references its row number counting the
\* header row; and a CSV of n >= 2 data rows in which only data row r has an
\* empty amount yields n - 1 transactions and one error, for row r + 1. With
\* n = 1 no transaction is left and parseCSV throws.
C8_EmptyRowSkipped ==
  (CsvRead /\ loc.cols # <<>>) =>
    /\ \A i \in 1..loc.index :
         HasEmptyField(i) =>
           /\ Cardinality(ErrorsAt(i + 1)) = 1
           /\ \A e \in ErrorsAt(i + 1) :
                loc.errors[e].reason = "Missing required data (date, description, or amount)"
    /\ pc = "returned" =>
         \A r \in DOMAIN arg.rows :
           OnlyEmptyAmount(r) =>
             IF Len(arg.rows) >= 2
               THEN /\ ~ret.threw
                    /\ Len(ret.value.transactions) = Len(arg.rows) - 1
                    /\ Len(ret.value.errors) = 1
                    /\ ret.value.errors[1].row = r + 1
               ELSE ret.threw

\* C8 witness: three data rows, the second with an empty amount: two
\* transactions and one error, for row 3
C8_Witness ==
  /\ CsvReturned /\ CsvRead /\ loc.cols # <<>>
  /\ Len(arg.rows) = 3
  /\ OnlyEmptyAmount(2)
  /\ ~ret.threw
  /\ Len(ret.value.transactions) = 2
  /\ ret.value.errors[1].row = 3

\* the 1-based positions, among the rows or lines gone through so far, of those
\* without an error
Emitted == {i \in 1..loc.index : ErrorsAt(IF fn = "parseCSV" THEN i + 1 ELSE i) = {}}

\* the tokens of each line a statement text is made of
LineTokens == [line \in TextLines |-> Split(Trim(CollapseSpaces(line, 1)), " ")]

\* the tokens of a line of statement text
TokensOf(line) == LineTokens[line]

\* a line holds an amount literal after its first token
HasAmountToken(line) ==
  \E t \in 2..Len(TokensOf(line)) : IsAmount(TokensOf(line)[t])

Undecorated(literal) ==
  RemoveChars(literal, CurrencySymbols \cup {",", " ", "\t", "(", ")"})

\* the text is a decimal number: an optional sign, digits, and an optional
\* point with digits, and nothing else
IsDecimal(s) ==
  LET b == IF s # <<>> /\ s[1] \in {"+", "-"} THEN 2 ELSE 1
      n1 == DigitRun(s, b)
      hasPoint == b + n1 <= Len(s) /\ s[b + n1] = "."
      n2 == IF hasPoint THEN DigitRun(s, b + n1 + 1) ELSE 0
  IN  /\ n1 + n2 > 0
      /\ b + n1 + (IF hasPoint THEN 1 + n2 ELSE 0) = Len(s) + 1

ZeroLiterals == {<<"0">>, <<"0",".","0","0">>}

\* C10 (the claim as stated): a transaction with amount 0 comes from a row or
\* line whose amount literal is "0" or "0.00"; and a complete CSV row whose
\* amount literal is not a decimal number has a 'Could not parse amount' error
\* and is not among the transactions.
C10_UnparseableAmountIsError ==
  /\ (CsvRead /\ loc.cols # <<>>) =>
       /\ \A t \in DOMAIN loc.transactions :
            loc.transactions[t].amount = 0 =>
              \E i \in 1..loc.index :
                /\ FieldsOf(i).description = loc.transactions[t].description
                /\ FieldsOf(i).amount \in ZeroLiterals
       /\ \A i \in 1..loc.index :
            (~HasEmptyField(i) /\ ~IsDecimal(Undecorated(FieldsOf(i).amount))) =>
              /\ i \notin Emitted
              /\ \A e \in ErrorsAt(i + 1) : loc.errors[e].reason = "Could not parse amount"
  /\ TextCalled =>
       \A t \in DOMAIN loc.transactions :
         loc.transactions[t].amount = 0 =>
           \E i \in 1..loc.index :
             \E k \in DOMAIN TokensOf(loc.lines[i]) :
               TokensOf(loc.lines[i])[k] \in ZeroLiterals

-----------------------------------------------------------------------------
(* Properties of the ParsedFileResult *)

\* an ingestor returned a ParsedFileResult
IngestReturned ==
  /\ fn \in {"parseCSV", "parseTransactionsFromText"}
  /\ pc = "returned"
  /\ ~ret.threw

\* the absolute values of the listed amounts, added up from the first on
RECURSIVE AbsTotal(_)
AbsTotal(transactions) ==
  IF transactions = <<>> THEN 0
  ELSE Abs(transactions[1].amount) + AbsTotal(Tail(transactions))

ListedDates(transactions) == {transactions[i].date : i \in DOMAIN transactions}

\* d is a listed date and no listed date is lexically smaller
IsSmallestDate(d, transactions) ==
  /\ d \in ListedDates(transactions)
  /\ \A e \in ListedDates(transactions) : ~StrLess(e, d, DateChars)

\* d is a listed date and no listed date is lexically larger
IsLargestDate(d, transactions) ==
  /\ d \in ListedDates(transactions)
  /\ \A e \in ListedDates(transactions) : ~StrLess(d, e, DateChars)

\* C11: in every ParsedFileResult that parseCSV or parseTransactionsFromText
\* returns, totalAmount is the sum of the absolute values of the listed
\* amounts, dateRange.start and dateRange.end are the lexically smallest and
\* largest listed dates, start is not after end, and metadata.rowCount is the
\* number of listed transactions, which is the number of rows or lines gone
\* through without an error.
C11_AggregatesOfOwnList ==
  IngestReturned =>
    /\ ret.value.totalAmount = AbsTotal(ret.value.transactions)
    /\ IsSmallestDate(ret.value.dateRange.start, ret.value.transactions)
    /\ IsLargestDate(ret.value.dateRange.end, ret.value.transactions)
    /\ ~StrLess(ret.value.dateRange.end, ret.value.dateRange.start, DateChars)
    /\ ret.value.metadata.rowCount = Len(ret.value.transactions)
    /\ ret.value.metadata.rowCount = Cardinality(Emitted)

\* C11 witness: a CSV file of three rows, one of them skipped, whose first
\* listed transaction has the latest date
C11_Witness ==
  /\ IngestReturned
  /\ fn = "parseCSV"
  /\ Len(arg.rows) = 3
  /\ Len(ret.value.errors) = 1
  /\ ret.value.metadata.rowCount = 2
  /\ ret.value.transactions[1].date = ret.value.dateRange.end
  /\ ret.value.transactions[2].date = ret.value.dateRange.start
  /\ ret.value.dateRange.start # ret.value.dateRange.end
  /\ ret.value.totalAmount
       = Abs(ret.value.transactions[1].amount) + Abs(ret.value.transactions[2].amount)

-----------------------------------------------------------------------------
(* Properties of the normalizers *)

AmountReturned == fn = "parseAmount" /\ pc = "returned"

DateReturned == fn = "parseDate" /\ pc = "returned"

\* the positions of a character in a text
PositionsOf(s, c) == {i \in DOMAIN s : s[i] = c}

\* the text has no parenthesis
NoParens(s) == PositionsOf(s, "(") = {} /\ PositionsOf(s, ")") = {}

\* the text has one opening parenthesis and, after it, one closing parenthesis
MatchedParens(s) ==
  /\ Cardinality(PositionsOf(s, "(")) = 1
  /\ Cardinality(PositionsOf(s, ")")) = 1
  /\ \A i \in PositionsOf(s, "(") : \A j \in PositionsOf(s, ")") : i < j

\* the value, in units, of a decimal number written as a text: the digits
\* before the point and the digits after it, with the sign in front
DecimalValue(s) ==
  LET signed == s # <<>> /\ s[1] \in {"+", "-"}
      parts == Split(IF signed THEN Tail(s) ELSE s, ".")
      whole == NatOf(parts[1]) * Unit
      fraction == IF Len(parts) > 1 THEN FracOf(parts[2], 1) ELSE 0
  IN  IF signed /\ s[1] = "-" THEN 0 - (whole + fraction) ELSE whole + fraction

\* 1234.56 in units
Amount123456 == 123456 * (Unit \div 100)

\* C12: parseAmount gives a decimal number decorated with a currency symbol,
\* thousands commas and matched parentheses the value of the undecorated
\* number, made negative when the parentheses are there, whatever its sign,
\* and left as it is when they are not; "$(1,234.56)" gives -1234.56,
\* "1,234.56" gives 1234.56, and an empty or blank text gives 0.
C12_DecoratedAmount ==
  AmountReturned =>
    /\ Trim(arg) = <<>> => ret.value = 0
    /\ (IsDecimal(Undecorated(arg)) /\ NoParens(arg)) =>
         ret.value = DecimalValue(Undecorated(arg))
    /\ (IsDecimal(Undecorated(arg)) /\ MatchedParens(arg)) =>
         ret.value = 0 - Abs(DecimalValue(Undecorated(arg)))
    /\ arg = <<"$","(","1",",","2","3","4",".","5","6",")">> => ret.value = 0 - Amount123456
    /\ arg = <<"1",",","2","3","4",".","5","6">> => ret.value = Amount123456

\* C12 witness: "(-5.00)", parentheses around a negative number, gives -5
C12_Witness ==
  /\ AmountReturned
  /\ arg = <<"(","-","5",".","0","0",")">>
  /\ ret.value = 0 - 5 * Unit

\* the three parts of a text written A/B/YYYY, <<>> for any other text
SlashDate(s) == MatchDate(Trim(s), "/", 1, 2, 1, 2, 4, 4)

\* the calendar date A/B/YYYY names when the larger-than-12 part is the day
\* and the first part is the month otherwise
ByMagnitude(parts) ==
  IF NatOf(parts[1]) > 12
    THEN <<NatOf(parts[3]), NatOf(parts[2]), NatOf(parts[1])>>
    ELSE <<NatOf(parts[3]), NatOf(parts[1]), NatOf(parts[2])>>

\* year, month and day form a date of the calendar
IsCalendarDate(ymd) ==
  /\ ymd[2] \in 1..12
  /\ ymd[3] \in 1..DaysInMonth(ymd[1], ymd[2])

\* C13 (the claim as stated): parseDate reads A/B/YYYY with A the day when
\* A > 12 and A the month otherwise, and returns that calendar date:
\* "13/01/2024" and "01/13/2024" give "2024-01-13", "01/02/2024" gives
\* "2024-01-02".
C13_DisambiguatedByMagnitude ==
  DateReturned =>
    /\ (SlashDate(arg) # <<>> /\ IsCalendarDate(ByMagnitude(SlashDate(arg)))) =>
         ret.value = ISODate(ByMagnitude(SlashDate(arg)))
    /\ arg = <<"1","3","/","0","1","/","2","0","2","4">> =>
         ret.value = <<"2","0","2","4","-","0","1","-","1","3">>
    /\ arg = <<"0","1","/","1","3","/","2","0","2","4">> =>
         ret.value = <<"2","0","2","4","-","0","1","-","1","3">>
    /\ arg = <<"0","1","/","0","2","/","2","0","2","4">> =>
         ret.value = <<"2","0","2","4","-","0","1","-","0","2">>

\* the text is a canonical date: YYYY-MM-DD, naming a date of the calendar
IsCanonicalDate(s) ==
  /\ MatchDate(s, "-", 4, 4, 2, 2, 2, 2) # <<>>
  /\ IsCalendarDate(<<NatOf(SubSeq(s, 1, 4)), NatOf(SubSeq(s, 6, 7)), NatOf(SubSeq(s, 9, 10))>>)

\* the parts of the text under the first of the patterns of parseDate that it
\* matches, as <<year, month, day>> texts; <<>> when it matches none
PatternParts(s) ==
  LET t == Trim(s)
      slash == MatchDate(t, "/", 1, 2, 1, 2, 2, 4)
      isoLike == MatchDate(t, "-", 4, 4, 1, 2, 1, 2)
      dash == MatchDate(t, "-", 1, 2, 1, 2, 2, 4)
      other == IF slash # <<>> THEN slash ELSE dash
  IN  IF slash = <<>> /\ isoLike # <<>> THEN isoLike
      ELSE IF other = <<>> THEN <<>>
      ELSE IF NatOf(other[1]) > 12 THEN <<other[3], other[2], other[1]>>
      ELSE <<other[3], other[1], other[2]>>

\* the parts the text matched name no date of the calendar
InvalidParts(s) ==
  /\ PatternParts(s) # <<>>
  /\ ~IsCalendarDate(<<NatOf(PatternParts(s)[1]), NatOf(PatternParts(s)[2]),
                       NatOf(PatternParts(s)[3])>>)

\* C14 (the claim as stated): parseDate always returns a canonical YYYY-MM-DD
\* text, and it returns the current date when the text matches no pattern and
\* when the parts it matched form no valid calendar date, such as month 13 or
\* 31 February.
C14_InvalidDateGivesToday ==
  DateReturned =>
    /\ ~ret.threw
    /\ IsCanonicalDate(ret.value)
    /\ (PatternParts(arg) = <<>> \/ InvalidParts(arg)) => ret.value = ISODate(env.today)

-----------------------------------------------------------------------------
(* Properties of a batch: order, dispatch, row errors, sequencing, rollback *)

InUpload == fn = "handleFilesUpload"

\* file i of the batch went through parse, categorize and save
Processed(i) == i \in DOMAIN loc.console /\ loc.console[i].processed

\* the entries of the transactions parseFile gives for file i
ParsedEntries(i) == Entries(Parsed(arg[i]).value.transactions)

\* the entries of the files 1..n that were processed, file after file
RECURSIVE BatchEntries(_)
BatchEntries(n) ==
  IF n = 0 THEN <<>>
  ELSE BatchEntries(n - 1) \o (IF Processed(n) THEN ParsedEntries(n) ELSE <<>>)

\* a data row under the plain header row that parseCSV lists: no field is
\* empty and the amount is not read as 0
RowListed(row) ==
  /\ row[1] # <<>> /\ row[2] # <<>> /\ row[3] # <<>>
  /\ ParseAmount(row[3]) # 0

\* the descriptions of the rows listed, in row order
ListedDescriptions(file) ==
  [i \in 1..Len(SelectSeq(file.rows, RowListed)) |-> SelectSeq(file.rows, RowListed)[i][2]]

\* the row numbers of a list of errors go up
RowsAscend(errors) ==
  \A i, j \in DOMAIN errors : i < j => errors[i].row < errors[j].row

CallsFor(i) == SelectSeq(loc.calls, LAMBDA call : call.file = i)

\* C16: a file whose extension and declared type are neither CSV nor PDF is
\* handed to no ingestor: parseFile throws "Unsupported file type", also when
\* the file holds CSV text; the page shows that error, and nothing of the file
\* is categorized, saved or counted.
C16_UnsupportedRejectedFirst ==
  InUpload =>
    /\ \A k \in DOMAIN loc.calls :
         Unsupported(arg[loc.calls[k].file]) =>
           /\ loc.calls[k].op = "parseFile"
           /\ loc.calls[k].ingestor = "none"
    /\ \A i \in DOMAIN loc.console :
         Unsupported(arg[i]) =>
           /\ ~loc.console[i].processed
           /\ Len(CallsFor(i)) = 1
    /\ (pc \in {"parse", "finish"} /\ loc.index >= 1 /\ Unsupported(arg[loc.index])) =>
         /\ page.error # <<>>
         /\ page.error[1].file = arg[loc.index].name
         /\ page.error[1].error.message[1] = "Unsupported file type: "
         /\ page.error[1].error.headers = <<FileExtension(arg[loc.index].name)>>

\* C16 witness: a text file that holds a CSV table, first of its batch, was
\* rejected with the error on the page
C16_Witness ==
  /\ InUpload /\ pc = "parse" /\ loc.index = 1
  /\ Unsupported(arg[1])
  /\ arg[1].headers = PlainHeaders /\ Len(arg[1].rows) = 1
  /\ loc.calls = <<[op |-> "parseFile", file |-> 1, ingestor |-> "none"]>>
  /\ page.error[1].error.message[1] = "Unsupported file type: "

\* C17 (the claim as stated): when the handler is done, a file that was
\* processed and has row errors has them on the page, and a file that failed
\* has left nothing in the accumulated transactions.
C17_RowErrorsSurfaced ==
  UploadDone =>
    /\ Entries(loc.allTransactions) = BatchEntries(Len(arg))
    /\ \A i \in DOMAIN arg :
         (Processed(i) /\ Parsed(arg[i]).value.errors # <<>>) =>
           \E e \in DOMAIN page.error : page.error[e].file = arg[i].name

DescriptionsOf(transactions) ==
  [t \in DOMAIN transactions |-> transactions[t].description]

\* the descriptions parseFile lists for file i
ParsedDescriptions(i) == DescriptionsOf(Parsed(arg[i]).value.transactions)

\* call k follows call k - 1 as the loop prescribes: the next step of the same
\* file, or the parse of the next file
FollowsInTurn(k) ==
  \/ /\ loc.calls[k].file = loc.calls[k - 1].file
     /\ <<loc.calls[k - 1].op, loc.calls[k].op>>
          \in {<<"parseFile", "categorize">>, <<"categorize", "save">>}
  \/ /\ loc.calls[k].file = loc.calls[k - 1].file + 1
     /\ loc.calls[k].op = "parseFile"

\* C18: the files are gone through one at a time.  The calls of a file are
\* parse, categorize, save in that order; the first call of file i + 1 comes
\* after the last call of file i, when the loop is done with file i; and the
\* remote classification call of a file carries the descriptions of that file
\* and of no other.
C18_OneFileAtATime ==
  InUpload =>
    /\ Len(loc.console) = loc.index
    /\ \A k \in DOMAIN loc.calls :
         /\ loc.calls[k].file \in 1..Len(arg)
         /\ loc.calls[k].file <= loc.index + 1
         /\ IF k = 1
              THEN loc.calls[k].file = 1 /\ loc.calls[k].op = "parseFile"
              ELSE FollowsInTurn(k)
         /\ loc.calls[k].op = "categorize" =>
              loc.calls[k].descriptions = ParsedDescriptions(loc.calls[k].file)
    /\ pc = "parse" => \A k \in DOMAIN loc.calls : loc.calls[k].file <= loc.index
    /\ pc = "categorize" => loc.calls[Len(loc.calls)].op = "parseFile"
    /\ pc = "save" => loc.calls[Len(loc.calls)].op = "categorize"

\* C18 witness: two files processed, six calls, the second categorize call
\* with the two descriptions of the CSV file
C18_Witness ==
  /\ UploadDone
  /\ Len(arg) = 2
  /\ Processed(1) /\ Processed(2)
  /\ arg[1].type = "application/pdf"
  /\ Len(loc.calls) = 6
  /\ loc.calls[5].op = "categorize"
  /\ Len(loc.calls[5].descriptions) = 2
  /\ Len(loc.calls[2].descriptions) = 11

\* C19 (the claim as stated): when the handler is done with a batch in which
\* a file failed, the table holds no row saved for a file of the batch.
C19_RolledBackOnFailure ==
  (UploadDone /\ FailedFiles # {}) => db = <<>>

-----------------------------------------------------------------------------
(* Properties of the engine under answers of another shape *)

\* the remote call answered with a success status
RemoteAnswered == env.kind = "http" /\ env.ok

\* the answer is a body whose categories field is a list of one label per
\* transaction
WellShaped ==
  /\ RemoteAnswered
  /\ env.json = "object"
  /\ env.ctype = "array"
  /\ Len(env.items) = Len(arg)

\* transaction i came back with the result of the keyword matcher
RuleAssigned(i) ==
  /\ ret.value[i].category = CategorizeWithRules(arg[i].description).category
  /\ ret.value[i].subcategory = CategorizeWithRules(arg[i].description).subcategory
  /\ ret.value[i].confidence = CategorizeWithRules(arg[i].description).confidence
  /\ ret.value[i].categorySource = "rules"

\* C20 (the claim as stated): when the remote call answers with a body of any
\* shape other than a list of one label per transaction (a list of another
\* length, no categories field, a categories field that is no list, a body
\* that cannot be read), every transaction comes back with the keyword
\* matcher's result, tagged categorySource 'rules'.
C20_OtherShapesGiveRules ==
  (CatReturned /\ RemoteAnswered /\ ~WellShaped) =>
    \A i \in DOMAIN arg : RuleAssigned(i)

-----------------------------------------------------------------------------
(* Properties of the batch statistics *)

\* the files of the batch that went through parse, categorize and save
ProcessedFiles == {i \in DOMAIN loc.console : loc.console[i].processed}

\* the totals of a set of files added up, in no particular order
RECURSIVE TotalOver(_)
TotalOver(S) ==
  IF S = {} THEN 0
  ELSE LET i == CHOOSE j \in S : TRUE
       IN  Parsed(arg[i]).value.totalAmount + TotalOver(S \ {i})

StartsOf(S) == {Parsed(arg[i]).value.dateRange.start : i \in S}

EndsOf(S) == {Parsed(arg[i]).value.dateRange.end : i \in S}

\* d is the lexically smallest text of D
IsLeast(d, D) == d \in D /\ \A e \in D : ~StrLess(e, d, DateChars)

\* d is the lexically largest text of D
IsGreatest(d, D) == d \in D /\ \A e \in D : ~StrLess(d, e, DateChars)

\* the categories that occur among the accumulated transactions
CategoriesSeen == {loc.allTransactions[k].category : k \in DOMAIN loc.allTransactions}

\* how many of the accumulated transactions have the category
CountOf(category) ==
  Cardinality({k \in DOMAIN loc.allTransactions : loc.allTransactions[k].category = category})

-----------------------------------------------------------------------------
(* Properties of POST /api/transactions as the upload calls it *)

\* the category the endpoint stores for a transaction
StoredCategory(transaction) ==
  IF transaction.category \in CategoryNames THEN transaction.category
  ELSE IF transaction.amount >= 0 THEN "Other Income"
  ELSE "Other Expenses"

\* C22: each row the endpoint has stored carries the identifier of the
\* category its transaction names when the categories table holds the name,
\* and otherwise that of 'Other Income' for an amount >= 0 and of 'Other
\* Expenses' for an amount < 0.
C22_CategoryOrDefaultBySign ==
  fn = "handleFilesUpload" =>
    /\ Len(db) = Len(loc.allTransactions)
    /\ \A k \in DOMAIN db :
         /\ db[k].amount = loc.allTransactions[k].amount
         /\ db[k].category_id = StoredCategory(loc.allTransactions[k])

\* C22 witness: rows stored for transactions of an unknown category, one with
\* a positive and one with a negative amount, and one of a known category
C22_Witness ==
  /\ UploadDone
  /\ \E k \in DOMAIN db :
       /\ loc.allTransactions[k].category \notin CategoryNames
       /\ db[k].amount > 0 /\ db[k].category_id = "Other Income"
  /\ \E k \in DOMAIN db :
       /\ loc.allTransactions[k].category \notin CategoryNames
       /\ db[k].amount < 0 /\ db[k].category_id = "Other Expenses"
  /\ \E k \in DOMAIN db :
       /\ loc.allTransactions[k].category \in CategoryNames
       /\ db[k].category_id = loc.allTransactions[k].category

-----------------------------------------------------------------------------
(* The empty batch *)

\* C23 (the claim as stated): handleFilesUpload called with no file ends with
\* an error, not silently with neither an error nor upload stats.
C23_EmptyBatchFails ==
  (UploadDone /\ arg = <<>>) => page.error # <<>>

-----------------------------------------------------------------------------
(* The statistics the page publishes *)

\* the transactions of a set of files counted
RECURSIVE CountOver(_)
CountOver(S) ==
  IF S = {} THEN 0
  ELSE LET i == CHOOSE j \in S : TRUE
       IN  Len(Parsed(arg[i]).value.transactions) + CountOver(S \ {i})

\* the counts of a table of category counts added up
RECURSIVE SumCounts(_)
SumCounts(categories) ==
  IF DOMAIN categories = {} THEN 0
  ELSE LET c == CHOOSE d \in DOMAIN categories : TRUE
       IN  categories[c] + SumCounts([d \in DOMAIN categories \ {c} |-> categories[d]])

\* the statistics are those of the set S of files of the batch
StatsCover(stats, S) ==
  /\ stats.totalTransactions = CountOver(S)
  /\ stats.totalAmount = TotalOver(S)
  /\ IsLeast(stats.dateRange.start, StartsOf(S))
  /\ IsGreatest(stats.dateRange.end, EndsOf(S))
  /\ SumCounts(stats.categories) = stats.totalTransactions

\* the save of file i was called and the file failed
SaveFailed(i) ==
  /\ i \in FailedFiles
  /\ \E k \in DOMAIN loc.calls : loc.calls[k].file = i /\ loc.calls[k].op = "save"

\* C30: when the handler is done, the upload stats are those of the files
\* that were parsed, categorized and saved: their transactions counted, their
\* totals added, their dates spanned, and the category counts adding up to
\* the number of transactions; a file whose save failed adds nothing; and
\* when no file of the batch got through, no stats are published.
C30_StatsCoverSavedFiles ==
  UploadDone =>
    IF ProcessedFiles = {}
      THEN page.uploadStats = <<>>
      ELSE /\ page.uploadStats # <<>>
           /\ StatsCover(page.uploadStats[1], ProcessedFiles)

\* C30 witness: the save of the first file failed and the second file got
\* through; the stats count the transactions of the second file
C30_Witness ==
  /\ UploadDone
  /\ Len(arg) = 2
  /\ SaveFailed(1)
  /\ ProcessedFiles = {2}
  /\ page.uploadStats # <<>>
  /\ page.uploadStats[1].totalTransactions = Len(Parsed(arg[2]).value.transactions)
  /\ page.uploadStats[1].totalAmount = Parsed(arg[2]).value.totalAmount

-----------------------------------------------------------------------------
(* Properties of getCategorySuggestions *)

SuggestionsReturned == fn = "getCategorySuggestions" /\ pc = "returned"

\* the number of keywords of rule r that occur in the description asked about
ScoreOf(r) == MatchScore(ToLowerCase(arg), CATEGORIZATION_RULES[r])

\* the rules with a keyword in the description
Matching == {r \in DOMAIN CATEGORIZATION_RULES : ScoreOf(r) > 0}

\* score x 0.3 as double arithmetic gives it, in units of 10^-4, the digits
\* after the fourth cut off: 3 x 0.3 is 0.8999999999999999
ScoreTimesThreeTenths(score) == IF score = 3 THEN 8999 ELSE score * 3000

\* min(0.9, score x 0.3) for rule r
ConfidenceOf(r) ==
  IF ScoreTimesThreeTenths(ScoreOf(r)) < 9000
    THEN ScoreTimesThreeTenths(ScoreOf(r))
    ELSE 9000

\* rule q ranks above rule r: a higher confidence, or the same and declared first
Outranks(q, r) ==
  \/ ConfidenceOf(q) > ConfidenceOf(r)
  \/ ConfidenceOf(q) = ConfidenceOf(r) /\ q < r

\* the matching rules that rank above rule r
Ahead(r) == Cardinality({q \in Matching : Outranks(q, r)})

-----------------------------------------------------------------------------
(* The frame of categorizeTransactions *)

CategoryFields == {"category", "subcategory", "confidence", "categorySource"}

\* the record carries every field of the transaction, with its value, and the
\* category fields besides
Extends(record, transaction) ==
  /\ DOMAIN record = DOMAIN transaction \cup CategoryFields
  /\ \A f \in DOMAIN transaction : record[f] = transaction[f]

-----------------------------------------------------------------------------
(* Properties of parseTransactionLine *)

\* pattern k matches the tokens and its amount text is not thrown out: the
\* amount is not 0, or the text is "0.00"
Usable(k, tokens) ==
  /\ PatternMatch(k, tokens) # <<>>
  /\ \/ ParseAmount(PatternMatch(k, tokens)[1].amountStr) # 0
     \/ PatternMatch(k, tokens)[1].amountStr = <<"0",".","0","0">>

\* the first pattern, in the order 1, 2, 3, 4, that is usable; 0 when none is
FirstUsable(tokens) ==
  IF \E k \in 1..4 : Usable(k, tokens)
    THEN CHOOSE k \in 1..4 : Usable(k, tokens) /\ \A j \in 1..(k - 1) : ~Usable(j, tokens)
    ELSE 0

\* the first usable pattern of each line a statement text is made of
FirstUsableOf == [line \in TextLines |-> FirstUsable(TokensOf(line))]

\* the transaction collected for line i, which is among the emitted ones
TransactionOf(i) == loc.transactions[Cardinality({j \in Emitted : j <= i})]

\* the transaction of line i has the fields pattern k captures
TakenBy(k, i, tokens) ==
  /\ i \in Emitted
  /\ TransactionOf(i).description = Trim(PatternMatch(k, tokens)[1].description)
  /\ TransactionOf(i).amount = ParseAmount(PatternMatch(k, tokens)[1].amountStr)
  /\ k = 3 =>
       /\ TransactionOf(i).amount = ParseAmount(tokens[2])
       /\ TransactionOf(i).description = Join(SubSeq(tokens, 3, Len(tokens)))
  /\ k # 3 =>
       TransactionOf(i).amount
         = ParseAmount(tokens[IF PatternMatch(k, tokens)[1].balance = <<>>
                                THEN Len(tokens) ELSE Len(tokens) - 1])

\* C24: each line that parseTransactionsFromText has gone through was taken by
\* the first of the four patterns, in their fixed order, that matches it with
\* an amount that is not thrown out (an amount of 0 from a text other than
\* "0.00" makes the pattern a mismatch and the next one is tried on the same
\* line); that pattern gives the fields, the third taking the amount before
\* the description; the line is an error only when no pattern is left.
C24_FirstUsablePatternTakesLine ==
  TextCalled =>
    \A i \in 1..loc.index :
      IF FirstUsableOf[loc.lines[i]] = 0
        THEN \E e \in ErrorsAt(i) : loc.errors[e] = LineError(i - 1, loc.lines[i])
        ELSE TakenBy(FirstUsableOf[loc.lines[i]], i, TokensOf(loc.lines[i]))

\* C24 witness: a line that the second pattern matches with the amount text
\* "0" was taken by the third, and a line that the second pattern matches with
\* the amount text "0" and no other pattern matches is an error
C24_Witness ==
  /\ TextCalled
  /\ \E i \in 1..loc.index :
       /\ PatternMatch(2, TokensOf(loc.lines[i])) # <<>>
       /\ ~Usable(2, TokensOf(loc.lines[i]))
       /\ FirstUsableOf[loc.lines[i]] = 3
       /\ i \in Emitted
       /\ TransactionOf(i).amount = ParseAmount(<<"-","4",".","5","0">>)
  /\ \E i \in 1..loc.index :
       /\ PatternMatch(2, TokensOf(loc.lines[i])) # <<>>
       /\ FirstUsableOf[loc.lines[i]] = 0
       /\ i \notin Emitted

-----------------------------------------------------------------------------
(* The two date normalizers *)

\* the text is one a line pattern can capture as its date
Capturable(dateStr) == IsUSDate(dateStr) \/ IsISODate(dateStr)

\* C25 (the claim as stated): for every date text a line pattern can capture,
\* parseDate of the parse-pdf route returns the date parseDate of the CSV path
\* returns in the same environment, a first component above 12 in A/B/YYYY
\* being the day.
C25_RouteDateAgreesWithCsv ==
  (fn = "parseDateRoute" /\ pc = "returned" /\ Capturable(arg)) =>
    ret.value = ParseDate(arg, env)

-----------------------------------------------------------------------------
(* The records of a CSV file accounted for *)

\* parseCSV has gone through the records of the file and has settled
CsvLoopDone == CsvReturned /\ CsvRead /\ loc.cols # <<>>

NoValidTransactions ==
  <<"Failed to parse CSV file: ", "No valid transactions found in the file">>

\* C28: each data record that parseCSV has gone through gave either a
\* transaction or a row error; a result is returned only with at least one
\* transaction, and then its transactions and its errors together are as many
\* as the data records of the file; when no record gave a transaction
\* parseCSV throws 'No valid transactions found' and returns nothing.
C28_RecordsAccountedFor ==
  /\ (fn = "parseCSV" /\ CsvRead /\ loc.cols # <<>>) =>
       Len(loc.transactions) + Len(loc.errors) = loc.index
  /\ (CsvReturned /\ ~ret.threw) =>
       /\ Len(ret.value.transactions) >= 1
       /\ Len(ret.value.transactions) + Len(ret.value.errors) = Len(arg.rows)
  /\ CsvLoopDone =>
       (ret.threw <=> loc.transactions = <<>>)
  /\ (CsvLoopDone /\ ret.threw) => ret.value.message = NoValidTransactions

\* C28 witness: a file of three records returned one transaction and two row
\* errors, one for a missing field and one for an amount that cannot be read
C28_Witness ==
  /\ CsvLoopDone
  /\ ~ret.threw
  /\ Len(arg.rows) = 3
  /\ Len(ret.value.transactions) = 1
  /\ Len(ret.value.errors) = 2
  /\ \E e \in DOMAIN ret.value.errors : ret.value.errors[e].reason = "Could not parse amount"
  /\ \E e \in DOMAIN ret.value.errors :
       ret.value.errors[e].reason = "Missing required data (date, description, or amount)"

-----------------------------------------------------------------------------
(* The lines picked when no line starts with a date *)

\* whether each line a statement text is made of starts with a date
StartsWithDate == [line \in TextLines |-> DatePattern(Trim(line))]

\* no line of the text starts with a date: the table-like lines are picked
NoCandidate == \A i \in DOMAIN arg.rows : ~StartsWithDate[arg.rows[i]]

NoValidInPdf ==
  <<"Failed to parse PDF text: ", "No valid transactions found in PDF">>

\* C29: a line that gave a transaction starts with a date of the pattern the
\* lines are first picked by; so when no line of the text starts with such a
\* date, no line picked as table-like gives a transaction, and
\* parseTransactionsFromText throws 'No valid transactions found in PDF'.
C29_TableLinesNeverParse ==
  TextCalled =>
    /\ \A i \in 1..loc.index : i \in Emitted => StartsWithDate[loc.lines[i]]
    /\ NoCandidate =>
         /\ loc.transactions = <<>>
         /\ \A i \in DOMAIN loc.lines : IsTableLine(loc.lines[i])
         /\ pc = "returned" => (ret.threw /\ ret.value.message = NoValidInPdf)

\* C29 witness: a text without a line that starts with a date, of which a
\* table-like line was picked and gone through, was rejected
C29_Witness ==
  /\ TextCalled /\ pc = "returned"
  /\ NoCandidate
  /\ Len(loc.lines) = 1 /\ loc.index = 1
  /\ IsTableLine(loc.lines[1])
  /\ ErrorsAt(1) # {}
  /\ ret.threw

=============================================================================
